---- MODULE Spec2Model ----
(***************************************************************************)
(* Model of the checkmate checklist synchronisation code:                  *)
(*   - the rule identity resolver (core/cklb_handler.py get_rule_key and    *)
(*     the checkmate-lite rule_key),                                        *)
(*   - the command line merge (selected_merger.py main),                    *)
(*   - the library merge (core/cklb_handler.py merge_cklb_data, reached     *)
(*     through upgrade_cklb_simple).                                        *)
(*                                                                          *)
(* Python values are represented as follows.  A str is a sequence of        *)
(* symbols: identifiers are spelled character by character (so that the     *)
(* regular expression of get_rule_key is computed on them), other texts     *)
(* are a sequence holding one opaque symbol.  '' is <<>>.  A dict is a      *)
(* function whose DOMAIN is the set of keys it carries, a list a sequence.  *)
(***************************************************************************)
EXTENDS Integers, Sequences, FiniteSets, TLC

VARIABLES
    k_rule,     \* resolver run: the rule handed to the resolver
    k_res,      \* resolver run: what the resolver returned
    old_file,   \* the old checklist document on disk
    new_file,   \* the new template document on disk
    out_dir,    \* the output directory: file name -> document
    pc,         \* position of the running merge
    args,       \* arguments of the running merge
    heap,       \* the documents in memory: old_data, new_data, copy
    merged,     \* the object the name `merged` / `merged_data` refers to
    updated,    \* main: updated, merge_cklb_data: merged_count
    added,      \* main: added
    new_rules,  \* result of find_new_rules / check_stig_id_match
    old_in,     \* the old document as it was when loading finished
    new_in,     \* the new document as it was when loading finished
    written,    \* the names of the files the running merge has written
    result,     \* exit status / kind of return of the running merge
    file_a,     \* Diff: the document of the one file of file_a_list
    file_b,     \* Diff: the document of file_b
    diff_pc,    \* Diff: position of the running comparison
    diff_entry, \* Diff: which compare_cklb_versions runs
    output,     \* Diff: the lines appended to `output`
    selected_old_files, \* run_merge_task: the documents of the selected files
    task_args,  \* run_merge_task: new_name, force, prefix
    task,       \* run_merge_task: position, loop state, results, messages
    proc,       \* concurrent merges: position and locals of each process
    disk,       \* save: path -> what the file at that path holds
    save,       \* save: position and locals of the running save
    load_file,  \* load: what the file at the path handed to the loader holds
    load_res,   \* load: what the loader returned or raised
    tree,       \* parse: the root element of the XCCDF document
    cklb_json,  \* parse: what build_cklb returned or raised
    stig_data,  \* validate_stig_data: the object handed to the method
    stig_data_in, \* validate_stig_data: the object as it was at the call
    valid,       \* validate_stig_data: the value returned
    stig_filename, \* parse_stig_filename: the file name handed to the method
    name_parts, \* parse_stig_filename: the parts the file name was composed of
    file_info,   \* parse_stig_filename: the dict returned
    current_menu, \* CheckMateTUI: the menu shown
    selected_idx, \* CheckMateTUI: the index of the highlighted entry
    file_lists, \* CheckMateTUI: the file lists of the last refresh
    dirs,       \* the number of listed files in the directories
    getch,      \* main_loop: the key stdscr.getch() returned last
    exited      \* main_loop: handle_input asked to exit

keyvars == <<k_rule, k_res>>
mergevars == <<old_file, new_file, out_dir, pc, args, heap, merged,
               updated, added, new_rules, old_in, new_in, written, result>>
diffvars == <<file_a, file_b, diff_pc, diff_entry, output>>
taskvars == <<selected_old_files, task_args, task>>
procvars == <<proc>>
savevars == <<disk, save>>
earlyvars == <<keyvars, mergevars, diffvars, taskvars, procvars>>
loadvars == <<load_file, load_res>>
parsevars == <<tree, cklb_json>>
stigvars == <<stig_data, stig_data_in, valid>>
namevars == <<stig_filename, name_parts, file_info>>
tuivars == <<current_menu, selected_idx, file_lists, dirs, getch, exited>>
latevars == <<savevars, loadvars, parsevars, stigvars, namevars, tuivars>>
vars == <<k_rule, k_res, old_file, new_file, out_dir, pc, args, heap, merged,
          updated, added, new_rules, old_in, new_in, written, result,
          file_a, file_b, diff_pc, diff_entry, output,
          selected_old_files, task_args, task, proc,
          disk, save, load_file, load_res, tree, cklb_json,
          stig_data, stig_data_in, valid,
          stig_filename, name_parts, file_info,
          current_menu, selected_idx, file_lists, dirs, getch, exited>>

----------------------------------------------------------------------------
(* Python helpers *)

\* None: distinct from every str of the model (no str holds this symbol)
None == <<"<None>">>

\* the empty dict
EmptyDict == [k \in {} |-> None]

\* d.get(k, dflt)
Get(d, k, dflt) == IF k \in DOMAIN d THEN d[k] ELSE dflt

\* d[k] = v
SetItem(d, k, v) == [x \in DOMAIN d \cup {k} |-> IF x = k THEN v ELSE d[x]]

\* d.pop(k, None)
Pop(d, k) == [x \in DOMAIN d \ {k} |-> d[x]]

\* d.update(e)
Update(d, e) == [x \in DOMAIN d \cup DOMAIN e |-> IF x \in DOMAIN e THEN e[x] ELSE d[x]]

\* truth value of a str-or-None
Truthy(v) == v # None /\ v # <<>>

\* a or b
Or(a, b) == IF Truthy(a) THEN a ELSE b

\* all sequences over S of length lo..hi
SeqsOf(S, lo, hi) == UNION {[1..n -> S] : n \in lo..hi}

Digits == {"0", "1", "2", "3", "4", "5", "6", "7", "8", "9"}

\* s.strip(): s without its leading and trailing blanks
RECURSIVE strip(_)
strip(s) ==
    IF s = <<>> THEN s
    ELSE IF Head(s) = " " THEN strip(Tail(s))
    ELSE IF s[Len(s)] = " " THEN strip(SubSeq(s, 1, Len(s) - 1))
    ELSE s

----------------------------------------------------------------------------
(* Rule identity resolver *)

\* number of leading digits of s from position i on (the greedy \d+)
RECURSIVE DigitRun(_, _)
DigitRun(s, i) ==
    IF i <= Len(s) /\ s[i] \in Digits THEN 1 + DigitRun(s, i + 1) ELSE 0

\* re.match(r'(SV-\d)', val): the pattern without the +
ReMatchSV_one_digit(val) ==
    IF /\ Len(val) >= 4
       /\ val[1] = "S" /\ val[2] = "V" /\ val[3] = "-"
       /\ val[4] \in Digits
    THEN SubSeq(val, 1, 4)
    ELSE None

\* re.match(r'(SV-\d+)', val): group(1), or None when there is no match
ReMatchSV(val) ==
    IF /\ Len(val) >= 4
       /\ val[1] = "S" /\ val[2] = "V" /\ val[3] = "-"
       /\ val[4] \in Digits
    THEN SubSeq(val, 1, 3 + DigitRun(val, 4))
    ELSE None

\* the fields get_rule_key tries, in its order
KeyFields == <<"rule_id", "id", "Rule_ID", "group_id_src", "group_id">>

\* the loop of get_rule_key from field number i on
RECURSIVE KeyFrom(_, _)
KeyFrom(rule, i) ==
    IF i > Len(KeyFields) THEN Get(rule, "rule_id", <<>>)
    ELSE LET val == Get(rule, KeyFields[i], None)
         IN  IF Truthy(val)
             THEN IF ReMatchSV(val) # None THEN ReMatchSV(val) ELSE val
             ELSE KeyFrom(rule, i + 1)

\* CKLBHandler.get_rule_key
get_rule_key(rule) == KeyFrom(rule, 1)

\* checkmate-lite compare_cklb_versions.rule_key
rule_key(rule) ==
    Or(Get(rule, "rule_id", None),
       Or(Get(rule, "id", None), Get(rule, "Rule_ID", None)))

----------------------------------------------------------------------------
(* Resolver runs: inputs *)

MaxDigits == 2
MaxSuffix == 2

SV == <<"S", "V", "-">>

\* identifier values a field may hold
IdValues == { <<>>,
              <<"S", "V", "-", "1", "r", "2">>,
              <<"S", "V", "-">>,
              <<"V", "-", "1">> }

\* every rule carrying any subset of the identity fields
KeyRules ==
    UNION { [F -> IdValues] : F \in SUBSET {KeyFields[i] : i \in 1..Len(KeyFields)} }

DigitStrings == SeqsOf({"1", "2"}, 1, MaxDigits)
Suffixes == SeqsOf({"r", "_", "3"}, 0, MaxSuffix)

----------------------------------------------------------------------------
(* Checklist documents the merge runs on *)

MaxOldRules == 2
MaxNewRules == 2

\* a text that is only compared and copied: one opaque symbol
T(s) == <<s>>

V1 == <<"V", "-", "1">>
V2 == <<"V", "-", "2">>
SV1r1 == <<"S", "V", "-", "1", "r", "1">>
SV1r2 == <<"S", "V", "-", "1", "r", "2">>
SV2r1 == <<"S", "V", "-", "2", "r", "1">>
SV3r1 == <<"S", "V", "-", "3", "r", "1">>
SV3r2 == <<"S", "V", "-", "3", "r", "2">>

\* the per-rule evaluate-stig block written by the importer
EvalBlock(os, ns) ==
    [answer_file |-> T("bench.xml"), old_status |-> os, new_status |-> ns]

\* findings a reviewer entered, with an evaluate-stig record
Reviewed ==
    SetItem([status |-> T("open"), comments |-> T("c1"),
             finding_details |-> T("f1"), overrides |-> [severity |-> T("low")],
             rule_title |-> T("old title"), discussion |-> T("d")],
            "evaluate-stig",
            [EvalBlock(T("not_reviewed"), T("open")) EXCEPT !.answer_file = T("old.xml")])

\* findings of an export that has neither discussion nor evaluate-stig
Closed ==
    [status |-> T("not_a_finding"), comments |-> T("c2"),
     finding_details |-> <<>>, overrides |-> EmptyDict,
     rule_title |-> T("old title")]

\* the rules an old checklist is made of
OldRuleSet ==
    { Update([group_id_src |-> V1, group_id |-> V1, rule_id |-> SV1r1], Reviewed),
      Update([group_id_src |-> V1, group_id |-> V1, rule_id |-> SV1r1], Closed),
      [group_id_src |-> V1, group_id |-> V1, rule_id |-> SV1r1],
      Update([group_id_src |-> SV3r1], Reviewed),
      Reviewed }

\* a rule as create_cklb.py parse_rules assembles it (the fields merging reads)
Fresh ==
    [status |-> T("not_reviewed"), comments |-> <<>>, finding_details |-> <<>>,
     overrides |-> EmptyDict, rule_title |-> T("new title"),
     discussion |-> T("d2")]

FreshEval == SetItem(Fresh, "evaluate-stig", EvalBlock(<<>>, <<>>))

\* the rules a new template is made of
NewRuleSet ==
    { Update([group_id_src |-> V1, group_id |-> V1, rule_id |-> SV1r2], FreshEval),
      Update([group_id_src |-> V2, group_id |-> V2, rule_id |-> SV2r1], FreshEval),
      Update([group_id_src |-> SV3r2], Fresh),
      Fresh }

StigDef(sid, rules) ==
    [stig_id |-> sid, uuid |-> T("uuid-1"), display_name |-> T("STIG"),
     rules |-> rules]

\* the rules of the old checklists of another benchmark, and of those
\* without host identity
OtherRuleSet ==
    { Update([group_id_src |-> V1, group_id |-> V1, rule_id |-> SV1r1], Reviewed),
      Update([group_id_src |-> SV3r1], Reviewed) }

BareRuleSet ==
    { Update([group_id_src |-> V1, group_id |-> V1, rule_id |-> SV1r1], Reviewed) }

\* old checklists: a reviewed instance of the template's benchmark or of
\* another one, with or without host identity, or a document without any
\* StigDefinition
OldDocs ==
    { [stigs |-> <<StigDef(T("RHEL_8_STIG"), rules)>>,
       target_data |-> [host_name |-> T("web01"), ip_address |-> T("10.0.0.1")],
       cklb_version |-> T("0.9")] :
        rules \in SeqsOf(OldRuleSet, 0, MaxOldRules) }
    \cup
    { [stigs |-> <<StigDef(T("WIN_STIG"), rules)>>,
       target_data |-> [host_name |-> T("web01"), ip_address |-> T("10.0.0.1")],
       cklb_version |-> T("0.9")] :
        rules \in SeqsOf(OtherRuleSet, 0, MaxOldRules) }
    \cup
    { [stigs |-> <<StigDef(T("RHEL_8_STIG"), rules)>>] :
        rules \in SeqsOf(BareRuleSet, 0, MaxOldRules) }
    \cup
    { [stigs |-> <<>>, cklb_version |-> T("0.9")] }

\* new templates as create_cklb.py build_cklb assembles them
NewDocs ==
    { SetItem([stigs |-> <<StigDef(T("RHEL_8_STIG"), rules)>>,
               target_data |-> [host_name |-> <<>>, ip_address |-> <<>>],
               cklb_version |-> T("1.0")],
              "evaluate-stig", [version |-> T("1.0")]) :
        rules \in SeqsOf(NewRuleSet, 0, MaxNewRules) }

----------------------------------------------------------------------------
(* Lists and indexes *)

\* the concatenation of a list of lists
RECURSIVE Flatten(_)
Flatten(ss) == IF ss = <<>> THEN <<>> ELSE Head(ss) \o Flatten(Tail(ss))

\* [f(x) for x in s if P]: the subsequence of s at the positions in I
RECURSIVE Pick(_, _, _)
Pick(s, I, i) ==
    IF i > Len(s) THEN <<>>
    ELSE (IF i \in I THEN <<s[i]>> ELSE <<>>) \o Pick(s, I, i + 1)

\* {keys[i]: rules[i] for i in I}, built in list order: a later rule
\* replaces an earlier one under the same key
DictOf(rules, keys, I) ==
    [k \in {keys[i] : i \in I} |->
        rules[CHOOSE i \in I : /\ keys[i] = k
                               /\ \A j \in I : keys[j] = k => j <= i]]

----------------------------------------------------------------------------
(* selected_merger.py *)

\* rule.get("group_id_src")
Gid(rule) == Get(rule, "group_id_src", None)

\* [rule for stig in data.get("stigs", []) for rule in stig.get("rules", [])]
StigRules(data) ==
    LET stigs == Get(data, "stigs", <<>>)
    IN  Flatten([i \in DOMAIN stigs |-> Get(stigs[i], "rules", <<>>)])

\* the stig each rule of StigRules(data) sits in
StigOfRule(data) ==
    LET stigs == Get(data, "stigs", <<>>)
    IN  Flatten([i \in DOMAIN stigs |->
                    [j \in DOMAIN Get(stigs[i], "rules", <<>>) |-> stigs[i]]])

\* selected_merger.find_new_rules
find_new_rules(old_data, new_data) ==
    LET old_rules == StigRules(old_data)
        old_gids == {Gid(old_rules[i]) : i \in DOMAIN old_rules}
        rules == StigRules(new_data)
        stig == StigOfRule(new_data)
        entry(i) == [group_id_src |-> Gid(rules[i]),
                     rule_title |-> Get(rules[i], "rule_title", <<>>),
                     stig_uuid |-> Get(stig[i], "uuid", None),
                     stig_display |-> Get(stig[i], "display_name", None)]
        all == [i \in DOMAIN rules |-> entry(i)]
    IN  Pick(all, {i \in DOMAIN rules : Gid(rules[i]) \notin old_gids}, 1)

\* the "stig_id" expression of selected_merger.check_stig_id_match
main_stig_id(data) ==
    IF Get(data, "stigs", <<>>) # <<>>
    THEN Get(data["stigs"][1], "stig_id", T("UNKNOWN"))
    ELSE T("UNKNOWN")

\* selected_merger.check_stig_id_match
main_check_stig_id_match(old_data, new_data) ==
    [is_match |-> main_stig_id(old_data) = main_stig_id(new_data),
     old_stig_id |-> main_stig_id(old_data),
     new_stig_id |-> main_stig_id(new_data),
     new_rules |-> find_new_rules(old_data, new_data)]

\* main, lines 57-62: old_lookup
old_lookup(old_data) ==
    LET rules == StigRules(old_data)
        gids == [i \in DOMAIN rules |-> Gid(rules[i])]
    IN  DictOf(rules, gids, {i \in DOMAIN rules : Truthy(gids[i])})

\* lines 72-74 with the receivers exchanged: rule.get(f, old.get(f))
main_update_rule_template_first(rule, old) ==
    LET r1 == SetItem(rule, "status", Get(rule, "status", Get(old, "status", None)))
        r2 == SetItem(r1, "comments", Get(r1, "comments", Get(old, "comments", None)))
    IN  SetItem(r2, "finding_details",
                Get(r2, "finding_details", Get(old, "finding_details", None)))

\* main, lines 71-77: the assignments to a rule found in old_lookup
main_update_rule(rule, old) ==
    LET r1 == SetItem(rule, "status", Get(old, "status", Get(rule, "status", None)))
        r2 == SetItem(r1, "comments", Get(old, "comments", Get(r1, "comments", None)))
        r3 == SetItem(r2, "finding_details",
                      Get(old, "finding_details", Get(r2, "finding_details", None)))
    IN  IF "evaluate-stig" \in DOMAIN r3 /\ "evaluate-stig" \in DOMAIN old
        THEN LET oe == old["evaluate-stig"]
                 e1 == SetItem(r3["evaluate-stig"], "old_status", Get(oe, "old_status", <<>>))
                 e2 == SetItem(e1, "new_status", Get(oe, "new_status", <<>>))
             IN  SetItem(r3, "evaluate-stig", e2)
        ELSE r3

\* the loop rebuilding the list from the rules found in old_lookup only
main_merge_rules_matched_only(rules, lookup) ==
    LET all == [i \in DOMAIN rules |->
                  IF Gid(rules[i]) \in DOMAIN lookup
                  THEN main_update_rule(rules[i], lookup[Gid(rules[i])])
                  ELSE rules[i]]
    IN  Pick(all, {i \in DOMAIN rules : Gid(rules[i]) \in DOMAIN lookup}, 1)

\* main, lines 67-80: what the loop leaves in the rules of one stig
main_merge_rules(rules, lookup) ==
    [i \in DOMAIN rules |->
        IF Gid(rules[i]) \in DOMAIN lookup
        THEN main_update_rule(rules[i], lookup[Gid(rules[i])])
        ELSE rules[i]]

\* main, lines 64-89, applied to the object `merged` refers to
main_merge(old_data, doc) ==
    LET lookup == old_lookup(old_data)
        stigs == Get(doc, "stigs", <<>>)
        stigs2 == [i \in DOMAIN stigs |->
                     IF "rules" \in DOMAIN stigs[i]
                     THEN SetItem(stigs[i], "rules",
                                  main_merge_rules(stigs[i]["rules"], lookup))
                     ELSE stigs[i]]
        m1 == IF "stigs" \in DOMAIN doc THEN SetItem(doc, "stigs", stigs2) ELSE doc
        m2 == IF "target_data" \in DOMAIN old_data
              THEN SetItem(m1, "target_data", old_data["target_data"]) ELSE m1
        m3 == IF "cklb_version" \in DOMAIN old_data
              THEN SetItem(m2, "cklb_version", old_data["cklb_version"]) ELSE m2
    IN  Pop(m3, "evaluate-stig")

\* updated += 1 placed after the if/else: every rule is counted
main_updated_every_rule(old_data, doc) == Len(StigRules(doc))

\* main, lines 65-80: updated
main_updated(old_data, doc) ==
    LET rules == StigRules(doc)
    IN  Cardinality({i \in DOMAIN rules : Gid(rules[i]) \in DOMAIN old_lookup(old_data)})

\* line 79 as `elif gid:`: a rule without group_id_src is not recorded
main_added_truthy_only(old_data, doc) ==
    LET rules == StigRules(doc)
        all == [i \in DOMAIN rules |->
                  <<Gid(rules[i]), Get(rules[i], "rule_title", T("UNKNOWN TITLE"))>>]
    IN  Pick(all, {i \in DOMAIN rules :
                     /\ Truthy(Gid(rules[i]))
                     /\ Gid(rules[i]) \notin DOMAIN old_lookup(old_data)}, 1)

\* main, lines 65-80: added
main_added(old_data, doc) ==
    LET rules == StigRules(doc)
        all == [i \in DOMAIN rules |->
                  <<Gid(rules[i]), Get(rules[i], "rule_title", T("UNKNOWN TITLE"))>>]
    IN  Pick(all, {i \in DOMAIN rules : Gid(rules[i]) \notin DOMAIN old_lookup(old_data)}, 1)

\* merged = new_data: no copy is made
deepcopy_alias(x) == x

\* copy.deepcopy(x): the object the result refers to; its content is heap[x]
deepcopy(x) == "copy"

----------------------------------------------------------------------------
(* core/cklb_handler.py *)

\* CKLBHandler.ensure_discussion_field
ensure_discussion_field(rules) ==
    [i \in DOMAIN rules |->
        IF "discussion" \in DOMAIN rules[i] THEN rules[i]
        ELSE SetItem(rules[i], "discussion", <<>>)]

\* CKLBHandler.load_cklb applied to the parsed document
handler_load_cklb(data) ==
    IF "stigs" \in DOMAIN data
    THEN SetItem(data, "stigs",
                 [i \in DOMAIN data["stigs"] |->
                    LET stig == data["stigs"][i]
                    IN  IF "rules" \in DOMAIN stig
                        THEN SetItem(stig, "rules", ensure_discussion_field(stig["rules"]))
                        ELSE stig])
    ELSE data

\* CKLBHandler.get_stig_info: the stig_id entry
get_stig_info(cklb_data) ==
    IF "stigs" \in DOMAIN cklb_data /\ cklb_data["stigs"] # <<>>
    THEN Get(cklb_data["stigs"][1], "stig_id", None)
    ELSE None

\* the alternative top-level keys get_rules tries
AltRuleKeys == <<"rules", "Rules", "stig_rules", "stigRules">>

\* CKLBHandler.get_rules: the place of the list it returns.  The final scan
\* over the values looks at "stigs", the only top-level list of a document.
get_rules_place(cklb_data) ==
    IF /\ "stigs" \in DOMAIN cklb_data /\ cklb_data["stigs"] # <<>>
       /\ "rules" \in DOMAIN cklb_data["stigs"][1]
    THEN "stigs[0].rules"
    ELSE IF \E i \in DOMAIN AltRuleKeys : AltRuleKeys[i] \in DOMAIN cklb_data
    THEN AltRuleKeys[CHOOSE i \in DOMAIN AltRuleKeys :
                        /\ AltRuleKeys[i] \in DOMAIN cklb_data
                        /\ \A j \in 1..(i - 1) : AltRuleKeys[j] \notin DOMAIN cklb_data]
    ELSE IF /\ "stigs" \in DOMAIN cklb_data /\ cklb_data["stigs"] # <<>>
            /\ "rule_id" \in DOMAIN cklb_data["stigs"][1]
    THEN "stigs"
    ELSE "nowhere"

\* CKLBHandler.get_rules
get_rules(cklb_data) ==
    LET place == get_rules_place(cklb_data)
    IN  IF place = "stigs[0].rules" THEN cklb_data["stigs"][1]["rules"]
        ELSE IF place = "nowhere" THEN <<>>
        ELSE cklb_data[place]

\* the document after the list get_rules returned was changed in place
put_rules(cklb_data, rules) ==
    LET place == get_rules_place(cklb_data)
    IN  IF place = "stigs[0].rules"
        THEN SetItem(cklb_data, "stigs",
                     [cklb_data["stigs"] EXCEPT ![1] = SetItem(@, "rules", rules)])
        ELSE IF place = "nowhere" THEN cklb_data
        ELSE SetItem(cklb_data, place, rules)

\* merge_cklb_data, line 382: old_rules
handler_old_rules(old_data) ==
    LET rules == get_rules(old_data)
    IN  DictOf(rules, [i \in DOMAIN rules |-> get_rule_key(rules[i])], DOMAIN rules)

\* CKLBHandler.check_stig_id_match
handler_check_stig_id_match(old_data, new_data) ==
    LET old_stig_id == Or(get_stig_info(old_data), T("UNKNOWN"))
        new_stig_id == Or(get_stig_info(new_data), T("UNKNOWN"))
        old_rules == handler_old_rules(old_data)
        list == get_rules(new_data)
    IN  [is_match |-> old_stig_id = new_stig_id,
         old_stig_id |-> old_stig_id,
         new_stig_id |-> new_stig_id,
         new_rules |-> Pick(list, {i \in DOMAIN list :
                                     get_rule_key(list[i]) \notin DOMAIN old_rules}, 1)]

\* CKLBHandler.find_new_rules
handler_find_new_rules(old_data, new_data) ==
    handler_check_stig_id_match(old_data, new_data).new_rules

\* line 400 with the whole old rule copied over the template rule
UserFields_and_descriptive ==
    <<"status", "comments", "finding_details", "overrides", "rule_title", "discussion">>

\* merge_cklb_data, line 400: the fields preserved from the old rule
UserFields == <<"status", "comments", "finding_details", "overrides">>

\* merge_cklb_data, lines 400-402, from field number i on
RECURSIVE handler_update_from(_, _, _)
handler_update_from(rule, old_rule, i) ==
    IF i > Len(UserFields) THEN rule
    ELSE handler_update_from(
            IF UserFields[i] \in DOMAIN old_rule
            THEN SetItem(rule, UserFields[i], old_rule[UserFields[i]])
            ELSE rule,
            old_rule, i + 1)

\* merge_cklb_data, lines 374-379: new_rule_defaults
new_rule_defaults ==
    [status |-> T("not_reviewed"), comments |-> <<>>, finding_details |-> <<>>]

\* merge_cklb_data, lines 407-409
handler_apply_defaults(rule) ==
    [f \in DOMAIN rule \cup DOMAIN new_rule_defaults |->
        IF f \in DOMAIN rule THEN rule[f] ELSE new_rule_defaults[f]]

\* merge_cklb_data, lines 393-409: what the loop leaves in merged_rules
handler_merge_rules(rules, old_rules) ==
    [i \in DOMAIN rules |->
        IF get_rule_key(rules[i]) \in DOMAIN old_rules
        THEN handler_update_from(rules[i], old_rules[get_rule_key(rules[i])], 1)
        ELSE handler_apply_defaults(rules[i])]

\* merge_cklb_data, lines 381-412, applied to the object merged_data refers to
merge_cklb_data(old_data, doc) ==
    LET old_rules == handler_old_rules(old_data)
        m1 == IF "target_data" \in DOMAIN old_data /\ "target_data" \in DOMAIN doc
              THEN SetItem(doc, "target_data",
                           Update(doc["target_data"], old_data["target_data"]))
              ELSE doc
    IN  put_rules(m1, handler_merge_rules(get_rules(m1), old_rules))

\* merge_cklb_data, lines 391-404: merged_count
merged_count(old_data, doc) ==
    LET rules == get_rules(doc)
    IN  Cardinality({i \in DOMAIN rules :
                        get_rule_key(rules[i]) \in DOMAIN handler_old_rules(old_data)})

\* json.loads(json.dumps(x)): the object the result refers to
json_copy(x) == "copy"

----------------------------------------------------------------------------
(* Paths and output names *)

OldPath == <<"usr", "/", "old", ".cklb">>
NewPath == <<"lib", "/", "new", ".cklb">>
OutputArg == <<"cklb_updated", "/", "merged.cklb">>

Extensions == {".cklb"}

\* os.path.basename
basename(path) ==
    LET I == {i \in DOMAIN path : path[i] = "/"}
    IN  IF I = {} THEN path
        ELSE SubSeq(path, (CHOOSE i \in I : \A j \in I : j <= i) + 1, Len(path))

\* os.path.splitext(name)[0], Path.stem
stem(name) ==
    IF Len(name) >= 2 /\ name[Len(name)] \in Extensions
    THEN SubSeq(name, 1, Len(name) - 1)
    ELSE name

\* str(n) for n >= 0
RECURSIVE IntStr(_)
IntStr(n) ==
    LET d == <<"0", "1", "2", "3", "4", "5", "6", "7", "8", "9">>
    IN  IF n < 10 THEN <<d[n + 1]>> ELSE IntStr(n \div 10) \o <<d[(n % 10) + 1]>>

\* main, lines 100-104: the loop, entered with out_name and counter
RECURSIVE unique_name(_, _, _, _)
unique_name(base, out_name, counter, names) ==
    IF out_name \in names
    THEN unique_name(base, base \o <<"_">> \o IntStr(counter), counter + 1, names)
    ELSE out_name

\* main, lines 92-95: host_prefix
main_host_prefix(a, old_data) ==
    LET host_prefix == Or(a.prefix,
                          Get(Get(old_data, "target_data", EmptyDict), "host_name", None))
    IN  IF Truthy(host_prefix) THEN host_prefix ELSE stem(basename(a.old_cklb))

\* main, lines 96-105: the name of the output file
main_out_name(a, old_data, names) ==
    LET base == main_host_prefix(a, old_data) \o <<"_">> \o basename(a.new_cklb)
    IN  unique_name(base, base, 1, names)

\* datetime.now().strftime("%Y%m%d")
Timestamps == {T("20240101")}

\* upgrade_cklb_simple, lines 446-448: output_name
upgrade_out_name(a, timestamp) ==
    stem(basename(a.old_file)) \o <<"_upgraded_">> \o timestamp \o <<".cklb">>

----------------------------------------------------------------------------
(* The merge: initial state *)

\* a file an earlier run left in the output directory
EarlierOutput == [stigs |-> <<>>]

OutDirs ==
    { EmptyDict,
      [n \in {<<"web01", "_", "new", ".cklb">>} |-> EarlierOutput] }

MergeIdle ==
    /\ pc = "idle"
    /\ args = [entry |-> "none"]
    /\ heap = [old_data |-> EmptyDict, new_data |-> EmptyDict, copy |-> EmptyDict]
    /\ merged = "none"
    /\ updated = 0
    /\ added = <<>>
    /\ new_rules = <<>>
    /\ old_in = EmptyDict
    /\ new_in = EmptyDict
    /\ written = <<>>
    /\ result = [kind |-> "none"]

KeyIdle ==
    /\ k_rule = EmptyDict
    /\ k_res = [op |-> "none"]

DiffIdle ==
    /\ file_a = EmptyDict
    /\ file_b = EmptyDict
    /\ diff_pc = "idle"
    /\ diff_entry = "none"
    /\ output = <<>>

TaskIdle ==
    /\ selected_old_files = <<>>
    /\ task_args = [entry |-> "none"]
    /\ task = [pc |-> "idle", i |-> 0, out_name |-> <<>>, merged_results |-> <<>>,
               status |-> <<>>, returned |-> <<>>]

ProcIdle == proc = <<>>

SaveIdle ==
    /\ disk = EmptyDict
    /\ save = [pc |-> "idle"]

LoadIdle ==
    /\ load_file = EmptyDict
    /\ load_res = [kind |-> "none"]

ParseIdle ==
    /\ tree = EmptyDict
    /\ cklb_json = [kind |-> "none"]

StigIdle ==
    /\ stig_data = [type |-> "NoneType"]
    /\ stig_data_in = [type |-> "NoneType"]
    /\ valid = [kind |-> "none"]

NameIdle ==
    /\ stig_filename = <<>>
    /\ name_parts = [scheme |-> "none"]
    /\ file_info = [kind |-> "none"]

TuiIdle ==
    /\ current_menu = "main"
    /\ selected_idx = 0
    /\ file_lists = [xccdf |-> <<>>, lib_cklb |-> <<>>]
    /\ dirs = [tmp |-> 0, cklb_new |-> 0]
    /\ getch = "none"
    /\ exited = FALSE

LateIdle ==
    /\ SaveIdle
    /\ LoadIdle
    /\ ParseIdle
    /\ StigIdle
    /\ NameIdle
    /\ TuiIdle

\* the merge of one pair into an empty output directory (directories that
\* hold earlier outputs are those of InitNaming and InitTask)
Init ==
    /\ old_file \in OldDocs
    /\ new_file \in NewDocs
    /\ out_dir = EmptyDict
    /\ MergeIdle
    /\ LateIdle
    /\ KeyIdle
    /\ DiffIdle
    /\ TaskIdle
    /\ ProcIdle

----------------------------------------------------------------------------
(* selected_merger.py main *)

\* main, lines 39-48: parse the arguments, load both files
main_start(a, old_doc) ==
    /\ args' = a
    /\ heap' = [heap EXCEPT !["old_data"] = old_doc, !["new_data"] = new_file]
    /\ old_in' = old_doc
    /\ new_in' = new_file
    /\ pc' = "main_check"

\* selected_merger.py is run from the command line
MainStart(force, prefix) ==
    /\ pc = "idle"
    /\ main_start([entry |-> "main", old_cklb |-> OldPath, new_cklb |-> NewPath,
                   output |-> OutputArg, force |-> force, prefix |-> prefix],
                  old_file)
    /\ UNCHANGED <<old_file, new_file, out_dir, merged, updated, added,
                   new_rules, written, result>>
    /\ UNCHANGED <<keyvars, diffvars, taskvars, procvars, latevars>>

\* main, lines 50-55: the STIG id gate
MainCheck ==
    /\ pc = "main_check"
    /\ LET m == main_check_stig_id_match(heap["old_data"], heap["new_data"])
       IN  /\ new_rules' = m.new_rules
           /\ IF ~m.is_match /\ ~args.force
              THEN /\ result' = [kind |-> "exit", code |-> 2,
                                 old_stig_id |-> m.old_stig_id,
                                 new_stig_id |-> m.new_stig_id,
                                 count |-> Len(m.new_rules)]
                   /\ pc' = "done"
              ELSE /\ result' = result
                   /\ pc' = "main_merge"
    /\ UNCHANGED <<old_file, new_file, out_dir, args, heap, merged, updated,
                   added, old_in, new_in, written>>
    /\ UNCHANGED <<keyvars, diffvars, taskvars, procvars, latevars>>

\* main, lines 57-89: build the lookup, copy the template, merge into the copy
MainMerge ==
    /\ pc = "main_merge"
    /\ merged' = deepcopy("new_data")
    /\ LET h == [heap EXCEPT !["copy"] = heap["new_data"]]
       IN  /\ heap' = [h EXCEPT ![merged'] = main_merge(h["old_data"], h[merged'])]
           /\ updated' = main_updated(h["old_data"], h[merged'])
           /\ added' = main_added(h["old_data"], h[merged'])
    /\ pc' = "main_save"
    /\ UNCHANGED <<old_file, new_file, out_dir, args, new_rules, old_in, new_in,
                   written, result>>
    /\ UNCHANGED <<keyvars, diffvars, taskvars, procvars, latevars>>

\* main, lines 91-114: choose the output name, write the file, report
MainSave ==
    /\ pc = "main_save"
    /\ LET out_name == main_out_name(args, heap["old_data"], DOMAIN out_dir)
       IN  /\ out_dir' = SetItem(out_dir, out_name, heap[merged])
           /\ written' = Append(written, out_name)
           /\ result' = [kind |-> "exit", code |-> 0, output |-> out_name]
    /\ pc' = "done"
    /\ UNCHANGED <<old_file, new_file, args, heap, merged, updated, added,
                   new_rules, old_in, new_in>>
    /\ UNCHANGED <<keyvars, diffvars, taskvars, procvars, latevars>>

----------------------------------------------------------------------------
(* core/cklb_handler.py upgrade_cklb_simple *)

\* upgrade_cklb_simple, lines 431-440: load both files
UpgradeStart ==
    /\ pc = "idle"
    /\ args' = [entry |-> "upgrade", old_file |-> OldPath, new_file |-> NewPath]
    /\ heap' = [heap EXCEPT !["old_data"] = handler_load_cklb(old_file),
                            !["new_data"] = handler_load_cklb(new_file)]
    /\ old_in' = handler_load_cklb(old_file)
    /\ new_in' = handler_load_cklb(new_file)
    /\ pc' = "up_merge"
    /\ UNCHANGED <<old_file, new_file, out_dir, merged, updated, added,
                   new_rules, written, result>>
    /\ UNCHANGED <<keyvars, diffvars, taskvars, procvars, latevars>>

\* upgrade_cklb_simple, line 443: merge_cklb_data
UpgradeMerge ==
    /\ pc = "up_merge"
    /\ merged' = json_copy("new_data")
    /\ LET h == [heap EXCEPT !["copy"] = heap["new_data"]]
       IN  /\ heap' = [h EXCEPT ![merged'] = merge_cklb_data(h["old_data"], h[merged'])]
           /\ updated' = merged_count(h["old_data"], h[merged'])
    /\ pc' = "up_save"
    /\ UNCHANGED <<old_file, new_file, out_dir, args, added, new_rules, old_in,
                   new_in, written, result>>
    /\ UNCHANGED <<keyvars, diffvars, taskvars, procvars, latevars>>

\* upgrade_cklb_simple, lines 446-455: name the output, save it, return
UpgradeSave ==
    /\ pc = "up_save"
    /\ \E timestamp \in Timestamps :
         LET output_name == upgrade_out_name(args, timestamp)
         IN  /\ out_dir' = SetItem(out_dir, output_name, heap[merged])
             /\ written' = Append(written, output_name)
             /\ result' = [kind |-> "return", output |-> output_name]
    /\ pc' = "done"
    /\ UNCHANGED <<old_file, new_file, args, heap, merged, updated, added,
                   new_rules, old_in, new_in>>
    /\ UNCHANGED <<keyvars, diffvars, taskvars, procvars, latevars>>

\* a caller of the handler asks for the new rules of the pair it upgraded
HandlerFindNewRules ==
    /\ pc = "done"
    /\ args.entry = "upgrade"
    /\ new_rules' = handler_find_new_rules(heap["old_data"], heap["new_data"])
    /\ pc' = "reported"
    /\ UNCHANGED <<old_file, new_file, out_dir, args, heap, merged, updated,
                   added, old_in, new_in, written, result>>
    /\ UNCHANGED <<keyvars, diffvars, taskvars, procvars, latevars>>

Next ==
    \/ \E force \in BOOLEAN : MainStart(force, None)
    \/ MainCheck
    \/ MainMerge
    \/ MainSave
    \/ UpgradeStart
    \/ UpgradeMerge
    \/ UpgradeSave
    \/ HandlerFindNewRules

Spec == Init /\ [][Next]_vars

----------------------------------------------------------------------------
(* Resolver runs *)

InitKey ==
    /\ k_rule \in KeyRules
    /\ k_res = [op |-> "none"]
    /\ old_file = EmptyDict
    /\ new_file = EmptyDict
    /\ out_dir = EmptyDict
    /\ MergeIdle
    /\ LateIdle
    /\ DiffIdle
    /\ TaskIdle
    /\ ProcIdle

\* CKLBHandler.get_rule_key(k_rule)
GetRuleKey ==
    /\ k_res.op = "none"
    /\ k_res' = [op |-> "get_rule_key", key |-> get_rule_key(k_rule)]
    /\ UNCHANGED k_rule
    /\ UNCHANGED <<mergevars, diffvars, taskvars, procvars, latevars>>

\* checkmate-lite rule_key(k_rule)
LiteRuleKey ==
    /\ k_res.op = "none"
    /\ k_res' = [op |-> "rule_key", key |-> rule_key(k_rule)]
    /\ UNCHANGED k_rule
    /\ UNCHANGED <<mergevars, diffvars, taskvars, procvars, latevars>>

\* the rule without fields is given one identity field, SV-<digits><suffix>;
\* get_rule_key on it and on the same rule holding SV-<digits> alone
GetRuleKeyPair(field, digits, suffix) ==
    /\ k_res.op = "none"
    /\ k_rule = EmptyDict
    /\ k_rule' = SetItem(k_rule, field, SV \o digits \o suffix)
    /\ k_res' = [op |-> "pair", field |-> field, digits |-> digits,
                 suffix |-> suffix,
                 full |-> get_rule_key(k_rule'),
                 alone |-> get_rule_key(SetItem(k_rule, field, SV \o digits))]
    /\ UNCHANGED <<mergevars, diffvars, taskvars, procvars, latevars>>

NextKey ==
    \/ GetRuleKey
    \/ LiteRuleKey
    \/ \E i \in DOMAIN KeyFields, digits \in DigitStrings, suffix \in Suffixes :
          GetRuleKeyPair(KeyFields[i], digits, suffix)

SpecKey == InitKey /\ [][NextKey]_vars

----------------------------------------------------------------------------
(* Diff: the documents compared *)

MaxDiffRules == 2

\* STIG names: a name is a sequence of words
RHEL8 == <<"RHEL", "8", "STIG">>
RHEL9 == <<"RHEL", "9", "STIG">>
WIN10 == <<"Windows", "10", "STIG">>

\* the benchmarks a compared document may instantiate: stig_id and name
Benchmarks ==
    { [stig_id |-> T("RHEL_8_STIG"), name |-> RHEL8],
      [stig_id |-> T("RHEL_9_STIG"), name |-> RHEL9],
      [stig_id |-> T("WIN_10_STIG"), name |-> WIN10] }

\* the rules of the compared documents
DiffRuleSet ==
    { [rule_id |-> SV1r1, group_id |-> V1, status |-> T("open"), rule_title |-> T("t1")],
      [rule_id |-> SV1r1, group_id |-> V1, status |-> T("not_a_finding"),
       rule_title |-> T("t1")],
      [rule_id |-> SV1r2, group_id |-> V1, status |-> T("open"), rule_title |-> T("t1")],
      [rule_id |-> SV2r1, group_id |-> V2, finding |-> T("open"), title |-> T("t2")],
      [status |-> T("open"), rule_title |-> T("t0")] }

\* a document as build_cklb lays it out
StandardDoc(bm, rules) ==
    [title |-> bm.name,
     stigs |-> <<[stig_id |-> bm.stig_id, stig_name |-> bm.name,
                  display_name |-> bm.name, rules |-> rules]>>]

\* a document that holds its rules at the top level
FlatDoc(bm, rules) == [title |-> bm.name, rules |-> rules]

FileAName == <<"a", ".cklb">>
FileBName == <<"b", ".cklb">>

\* str.endswith('.cklb'), Path.suffix.lower() == '.cklb'
endswith_cklb(name) == name # <<>> /\ name[Len(name)] = ".cklb"

----------------------------------------------------------------------------
(* core/cklb_handler.py compare_cklb_versions *)

\* list(d.keys()) of {keys[i]: ... for i}: each key once, where it first occurs
DictKeys(keys) ==
    Pick(keys, {i \in DOMAIN keys : \A j \in 1..(i - 1) : keys[j] # keys[i]}, 1)

\* lines 284-287 and 299-301: the title column of a table row
core_title(rule) ==
    LET title == Or(Get(rule, "rule_title", None),
                    Or(Get(rule, "title", None),
                       Or(Get(rule, "group_title", None), <<>>)))
    IN  IF Len(title) > 70 THEN SubSeq(title, 1, 67) \o <<"...">> ELSE title

\* lines 278-289 and 293-303: a table of the rules of `index` under `rids`
core_table(heading, tag, rids, index) ==
    IF rids = <<>> THEN <<>>
    ELSE <<[tag |-> heading], [tag |-> "columns"], [tag |-> "dashes"]>>
         \o [n \in DOMAIN rids |->
                [tag |-> tag, rid |-> rids[n], title |-> core_title(index[rids[n]])]]
         \o <<[tag |-> "blank"]>>

\* the rules of a document indexed by get_rule_key, and the keys in dict order
core_index(cklb) ==
    LET rules == get_rules(cklb)
    IN  DictOf(rules, [i \in DOMAIN rules |-> get_rule_key(rules[i])], DOMAIN rules)

core_keys(cklb) ==
    LET rules == get_rules(cklb)
    IN  DictKeys([i \in DOMAIN rules |-> get_rule_key(rules[i])])

\* CKLBHandler.compare_cklb_versions, lines 252-310: the lines one file adds
core_compare(name_a, cklb_a, name_b, cklb_b) ==
    IF ~endswith_cklb(name_a) \/ ~endswith_cklb(name_b)
    THEN <<[tag |-> "ERROR"]>>
    ELSE
    LET stig_a == get_stig_info(cklb_a)
        stig_b == get_stig_info(cklb_b)
        rules_a == core_index(cklb_a)
        rules_b == core_index(cklb_b)
        keys_a == core_keys(cklb_a)
        keys_b == core_keys(cklb_b)
        new_in_b == Pick(keys_b, {i \in DOMAIN keys_b : keys_b[i] \notin DOMAIN rules_a}, 1)
        only_in_a == Pick(keys_a, {i \in DOMAIN keys_a : keys_a[i] \notin DOMAIN rules_b}, 1)
    IN  (IF Truthy(stig_a) /\ Truthy(stig_b) /\ stig_a # stig_b
         THEN <<[tag |-> "WARNING", a |-> stig_a, b |-> stig_b]>> ELSE <<>>)
        \o <<[tag |-> "Comparing", a |-> name_a, b |-> name_b]>>
        \o core_table("New rules in", "new_in_b", new_in_b, rules_b)
        \o core_table("Rules only in", "only_in_a", only_in_a, rules_a)
        \o <<[tag |-> "Common rules",
              count |-> Cardinality(DOMAIN rules_a \cap DOMAIN rules_b)],
             [tag |-> "blank"]>>

----------------------------------------------------------------------------
(* checkmate-lite/cklb_handler.py compare_cklb_versions *)

\* get_rules of checkmate-lite: the top-level keys, then the scan of the
\* values ("stigs" is the only other list of a document)
lite_get_rules(cklb) ==
    IF \E i \in DOMAIN AltRuleKeys : AltRuleKeys[i] \in DOMAIN cklb
    THEN cklb[AltRuleKeys[CHOOSE i \in DOMAIN AltRuleKeys :
                            /\ AltRuleKeys[i] \in DOMAIN cklb
                            /\ \A j \in 1..(i - 1) : AltRuleKeys[j] \notin DOMAIN cklb]]
    ELSE IF /\ "stigs" \in DOMAIN cklb /\ cklb["stigs"] # <<>>
            /\ "rule_id" \in DOMAIN cklb["stigs"][1]
    THEN cklb["stigs"]
    ELSE <<>>

\* findings_key
findings_key(rule) ==
    Or(Get(rule, "status", None),
       Or(Get(rule, "finding", None), Get(rule, "Finding", None)))

NameKeys == <<"stig_name", "title", "display_name">>

\* the first of NameKeys that d carries, 0 when it carries none
FirstNameKey(d) ==
    IF \E i \in DOMAIN NameKeys : NameKeys[i] \in DOMAIN d
    THEN CHOOSE i \in DOMAIN NameKeys :
            /\ NameKeys[i] \in DOMAIN d
            /\ \A j \in 1..(i - 1) : NameKeys[j] \notin DOMAIN d
    ELSE 0

\* get_stig_name
get_stig_name(cklb) ==
    IF FirstNameKey(cklb) # 0 THEN cklb[NameKeys[FirstNameKey(cklb)]]
    ELSE IF /\ "stigs" \in DOMAIN cklb /\ cklb["stigs"] # <<>>
            /\ FirstNameKey(cklb["stigs"][1]) # 0
    THEN cklb["stigs"][1][NameKeys[FirstNameKey(cklb["stigs"][1])]]
    ELSE None

\* str.lower() of a word
lower(w) ==
    CASE w = "RHEL" -> "rhel"
      [] w = "Windows" -> "windows"
      [] w = "STIG" -> "stig"
      [] w = "Y" -> "y"
      [] OTHER -> w

MainTags == <<"windows", "redhat", "rhel", "ubuntu", "apache", "sql", "oracle",
              "linux", "unix", "forest", "site", "server", "client">>

\* main_tag: the first tag that occurs in the lowered name (here: as one of
\* its words), else the first word of the lowered name
main_tag(name) ==
    IF ~Truthy(name) THEN <<>>
    ELSE LET words == [i \in DOMAIN name |-> lower(name[i])]
             hit == {t \in DOMAIN MainTags : \E i \in DOMAIN words : words[i] = MainTags[t]}
         IN  IF hit # {} THEN <<MainTags[CHOOSE t \in hit : \A u \in hit : t <= u]>>
             ELSE <<words[1]>>

\* the order of the characters of the identifiers
CharOrder == <<"-", "1", "2", "3", "S", "V", "_", "r">>
Ord(c) == CHOOSE i \in DOMAIN CharOrder : CharOrder[i] = c

\* a < b for two str
RECURSIVE StrLess(_, _)
StrLess(a, b) ==
    IF b = <<>> THEN FALSE
    ELSE IF a = <<>> THEN TRUE
    ELSE IF Head(a) = Head(b) THEN StrLess(Tail(a), Tail(b))
    ELSE Ord(Head(a)) < Ord(Head(b))

\* sorted(S), S a set of str or {None}
RECURSIVE sorted(_)
sorted(S) ==
    IF S = {} THEN <<>>
    ELSE LET m == CHOOSE x \in S : \A y \in S \ {x} : StrLess(x, y)
         IN  <<m>> \o sorted(S \ {m})

\* sorted() raises TypeError on a set holding None next to a str
Sortable(S) == None \notin S \/ S = {None}

\* the rules of a document indexed by rule_key
lite_index(cklb) ==
    LET rules == lite_get_rules(cklb)
    IN  DictOf(rules, [i \in DOMAIN rules |-> rule_key(rules[i])], DOMAIN rules)

\* lines 110-119: the line of one rule id, if any
lite_line(rid, rules_a, rules_b) ==
    IF rid \in DOMAIN rules_a /\ rid \notin DOMAIN rules_b
    THEN <<[tag |-> "ONLY IN A", rid |-> rid]>>
    ELSE IF rid \in DOMAIN rules_b /\ rid \notin DOMAIN rules_a
    THEN <<[tag |-> "ONLY IN B", rid |-> rid]>>
    ELSE IF findings_key(rules_a[rid]) # findings_key(rules_b[rid])
    THEN <<[tag |-> "DIFF", rid |-> rid,
            a |-> findings_key(rules_a[rid]), b |-> findings_key(rules_b[rid])]>>
    ELSE <<>>

\* lines 106-120: the lines of the comparison of two loaded documents
lite_compare(name_a, cklb_a, name_b, cklb_b) ==
    LET rules_a == lite_index(cklb_a)
        rules_b == lite_index(cklb_b)
        rids == sorted(DOMAIN rules_a \cup DOMAIN rules_b)
    IN  <<[tag |-> "Comparing", a |-> name_a, b |-> name_b]>>
        \o Flatten([n \in DOMAIN rids |-> lite_line(rids[n], rules_a, rules_b)])
        \o <<[tag |-> "blank"]>>

\* lines 73-88: the two STIG names differ and so do their main tags
lite_mismatch(cklb_a, cklb_b) ==
    LET stig_a == get_stig_name(cklb_a)
        stig_b == get_stig_name(cklb_b)
    IN  /\ Truthy(stig_a) /\ Truthy(stig_b) /\ stig_a # stig_b
        /\ main_tag(stig_a) # main_tag(stig_b)

----------------------------------------------------------------------------
(* Diff runs *)

\* the benchmark of file B
BenchmarkB == [stig_id |-> T("RHEL_8_STIG"), name |-> RHEL8]

\* file A and file B: two documents of the same layout, B of the first
\* benchmark, A of any
InitDiff ==
    /\ \E bm \in Benchmarks, standard \in BOOLEAN,
          ra \in SeqsOf(DiffRuleSet, 0, MaxDiffRules),
          rb \in SeqsOf(DiffRuleSet, 0, MaxDiffRules) :
            /\ file_a = IF standard THEN StandardDoc(bm, ra) ELSE FlatDoc(bm, ra)
            /\ file_b = IF standard THEN StandardDoc(BenchmarkB, rb)
                        ELSE FlatDoc(BenchmarkB, rb)
    /\ diff_pc = "idle"
    /\ diff_entry = "none"
    /\ output = <<>>
    /\ old_file = EmptyDict
    /\ new_file = EmptyDict
    /\ out_dir = EmptyDict
    /\ MergeIdle
    /\ LateIdle
    /\ KeyIdle
    /\ TaskIdle
    /\ ProcIdle

\* CKLBHandler.compare_cklb_versions([file_a], file_b)
CoreCompare ==
    /\ diff_pc = "idle"
    /\ diff_entry' = "core"
    /\ output' = core_compare(FileAName, handler_load_cklb(file_a),
                              FileBName, handler_load_cklb(file_b))
    /\ diff_pc' = "done"
    /\ UNCHANGED <<file_a, file_b>>
    /\ UNCHANGED <<keyvars, mergevars, taskvars, procvars, latevars>>

\* lite, lines 106-120: compare, append, return; sorted() may raise
LiteFinish(out) ==
    IF Sortable(DOMAIN lite_index(file_a) \cup DOMAIN lite_index(file_b))
    THEN /\ output' = out \o lite_compare(FileAName, file_a, FileBName, file_b)
         /\ diff_pc' = "done"
    ELSE /\ output' = Append(out, [tag |-> "Comparing", a |-> FileAName, b |-> FileBName])
         /\ diff_pc' = "raised"

\* checkmate-lite compare_cklb_versions([file_a], file_b), up to the return
\* or to the read of a key from the terminal
LiteCompareStart ==
    /\ diff_pc = "idle"
    /\ diff_entry' = "lite"
    /\ IF ~endswith_cklb(FileAName) \/ ~endswith_cklb(FileBName)
       THEN /\ output' = <<[tag |-> "ERROR"]>>
            /\ diff_pc' = "done"
       ELSE IF lite_mismatch(file_a, file_b)
       THEN /\ output' = <<[tag |-> "WARNING", a |-> get_stig_name(file_a),
                            b |-> get_stig_name(file_b)]>>
            /\ diff_pc' = "read_key"
       ELSE LiteFinish(<<>>)
    /\ UNCHANGED <<file_a, file_b>>
    /\ UNCHANGED <<keyvars, mergevars, taskvars, procvars, latevars>>

Keys == {"y", "Y", "n"}

\* lines 91-101: sys.stdin.read(1) returned ch
LiteReadKey(ch) ==
    /\ diff_pc = "read_key"
    /\ IF lower(ch) # "y"
       THEN /\ output' = Append(output, [tag |-> "cancelled"])
            /\ diff_pc' = "done"
       ELSE LiteFinish(output)
    /\ UNCHANGED <<file_a, file_b, diff_entry>>
    /\ UNCHANGED <<keyvars, mergevars, taskvars, procvars, latevars>>

NextDiff ==
    \/ CoreCompare
    \/ LiteCompareStart
    \/ \E ch \in Keys : LiteReadKey(ch)

SpecDiff == InitDiff /\ [][NextDiff]_vars

----------------------------------------------------------------------------
(* Repeated merges into one output directory *)

MaxRuns == 2

\* values of target_data.host_name: a name, '', a blank
HostNames == {T("web01"), <<>>, <<" ">>}

\* values of --prefix: not given, '', a name
Prefixes == {None, <<>>, T("srv")}

\* old checklists with and without a host name
NamingOldDocs ==
    { [stigs |-> <<StigDef(T(sid), rules)>>,
       target_data |-> [host_name |-> h, ip_address |-> T("10.0.0.1")],
       cklb_version |-> T("0.9")] :
        sid \in {"RHEL_8_STIG", "WIN_STIG"},
        h \in HostNames,
        rules \in SeqsOf({Update([group_id_src |-> V1, group_id |-> V1,
                                  rule_id |-> SV1r1], Reviewed)}, 0, 1) }
    \cup
    { [stigs |-> <<StigDef(T("RHEL_8_STIG"), <<>>)>>] }

\* the template the old checklists are merged into
NamingNewDocs ==
    { SetItem([stigs |-> <<StigDef(T("RHEL_8_STIG"),
                   <<Update([group_id_src |-> V1, group_id |-> V1, rule_id |-> SV1r2],
                            FreshEval)>>)>>,
               target_data |-> [host_name |-> <<>>, ip_address |-> <<>>],
               cklb_version |-> T("1.0")],
              "evaluate-stig", [version |-> T("1.0")]) }

InitNaming ==
    /\ old_file \in NamingOldDocs
    /\ new_file \in NamingNewDocs
    /\ out_dir \in OutDirs
    /\ MergeIdle
    /\ LateIdle
    /\ KeyIdle
    /\ DiffIdle
    /\ TaskIdle
    /\ ProcIdle

\* the merge has ended; the same pair is merged once more into the
\* directory as the merge left it
Again ==
    /\ pc = "done"
    /\ Len(written) < MaxRuns
    /\ pc' = "idle"
    /\ args' = [entry |-> "none"]
    /\ heap' = [old_data |-> EmptyDict, new_data |-> EmptyDict, copy |-> EmptyDict]
    /\ merged' = "none"
    /\ updated' = 0
    /\ added' = <<>>
    /\ new_rules' = <<>>
    /\ old_in' = EmptyDict
    /\ new_in' = EmptyDict
    /\ result' = [kind |-> "none"]
    /\ UNCHANGED <<old_file, new_file, out_dir, written>>
    /\ UNCHANGED <<keyvars, diffvars, taskvars, procvars, latevars>>

NextNaming ==
    \/ \E force \in BOOLEAN, prefix \in Prefixes : MainStart(force, prefix)
    \/ MainCheck
    \/ MainMerge
    \/ MainSave
    \/ UpgradeStart
    \/ UpgradeMerge
    \/ UpgradeSave
    \/ Again

SpecNaming == InitNaming /\ [][NextNaming]_vars

----------------------------------------------------------------------------
(* handlers.py run_merge_task *)

MaxFiles == 2

\* the old checklists a batch is selected from
TaskOldDocs ==
    { d \in NamingOldDocs : "target_data" \notin DOMAIN d \/ d["stigs"][1]["rules"] # <<>> }

\* values of the prefix argument: None, '', a blank, a name
TaskPrefixes == {None, <<>>, <<" ">>, T("srv")}

\* values of new_name: nothing selected, the template
NewNames == {<<>>, <<"new", ".cklb">>}

\* os.path.join(usr_dir, old_name) for the i-th selected file
old_path(i) == <<"usr", "/", "old">> \o IntStr(i) \o <<".cklb">>

InitTask ==
    /\ selected_old_files \in SeqsOf(TaskOldDocs, 0, MaxFiles)
    /\ task_args = [entry |-> "none"]
    /\ task = [pc |-> "idle", i |-> 0, out_name |-> <<>>, merged_results |-> <<>>,
               status |-> <<>>, returned |-> <<>>]
    /\ old_file = EmptyDict
    /\ new_file \in NamingNewDocs
    /\ out_dir \in OutDirs
    /\ MergeIdle
    /\ LateIdle
    /\ KeyIdle
    /\ DiffIdle
    /\ ProcIdle

\* run_merge_task, lines 98-102: the call and the check of the selection
RunMergeTask(new_name, force, prefix) ==
    /\ task.pc = "idle"
    /\ task_args' = [entry |-> "run_merge_task", new_name |-> new_name,
                     force |-> force, prefix |-> prefix]
    /\ IF selected_old_files = <<>> \/ ~Truthy(new_name)
       THEN task' = [task EXCEPT !.pc = "done",
                                 !.status = <<"Select at least one old and one new CKLB file.">>,
                                 !.returned = <<>>]
       ELSE task' = [task EXCEPT !.pc = "loop", !.i = 1]
    /\ UNCHANGED selected_old_files
    /\ UNCHANGED <<keyvars, mergevars, diffvars, procvars, latevars>>

\* lines 106-142: one pass of the loop up to subprocess.run, which starts
\* selected_merger.py, or to the return that aborts the batch
TaskIteration ==
    /\ task.pc = "loop"
    /\ pc \in {"idle", "done"}
    /\ LET old_json == selected_old_files[task.i]
           prefix == task_args.prefix
           host_name == Get(Get(old_json, "target_data", EmptyDict), "host_name", None)
       IN  IF ~Truthy(host_name) /\ (prefix = None \/ strip(prefix) = <<>>)
           THEN /\ task' = [task EXCEPT !.pc = "done",
                                        !.status = Append(@, "[ERROR] Prefix required"),
                                        !.returned = <<>>]
                /\ UNCHANGED <<pc, args, heap, old_in, new_in, merged, updated, added,
                               new_rules, written, result>>
           ELSE LET host_prefix == IF ~Truthy(host_name) THEN prefix ELSE host_name
                    base == host_prefix \o <<"_">> \o task_args.new_name
                    out_name == unique_name(base, base, 1, DOMAIN out_dir)
                IN  /\ task' = [task EXCEPT !.pc = "subprocess", !.out_name = out_name]
                    /\ main_start([entry |-> "main",
                                   old_cklb |-> old_path(task.i),
                                   new_cklb |-> <<"lib", "/">> \o task_args.new_name,
                                   output |-> <<"cklb_updated", "/">> \o out_name,
                                   force |-> task_args.force,
                                   prefix |-> IF ~Truthy(host_name) /\ Truthy(prefix)
                                              THEN prefix ELSE None],
                                  old_json)
                    /\ merged' = "none"
                    /\ updated' = 0
                    /\ added' = <<>>
                    /\ new_rules' = <<>>
                    /\ written' = <<>>
                    /\ result' = [kind |-> "none"]
    /\ UNCHANGED <<old_file, new_file, out_dir>>
    /\ UNCHANGED <<selected_old_files, task_args>>
    /\ UNCHANGED <<keyvars, diffvars, procvars, latevars>>

\* the loop goes on to the next file, or lines 150-151 end the task
task_continue(t) ==
    IF t.i < Len(selected_old_files)
    THEN [t EXCEPT !.pc = "loop", !.i = @ + 1]
    ELSE [t EXCEPT !.pc = "done", !.status = Append(@, "Merge complete."),
                   !.returned = t.merged_results]

\* lines 139-148: selected_merger.py has ended; collect its output
TaskCollect ==
    /\ task.pc = "subprocess"
    /\ pc = "done"
    /\ IF result.code # 0
       THEN task' = task_continue(task)
       ELSE IF task.out_name \notin DOMAIN out_dir
       THEN task' = [task EXCEPT !.pc = "raised"]
       ELSE LET old_cklb == selected_old_files[task.i]
                merged_cklb == out_dir[task.out_name]
            IN  task' = task_continue(
                    [task EXCEPT !.merged_results =
                        Append(@, [merged_path |-> <<"cklb_updated", "/">> \o task.out_name,
                                   merged_name |-> task.out_name,
                                   new_rules |-> find_new_rules(old_cklb, merged_cklb)])])
    /\ UNCHANGED <<selected_old_files, task_args>>
    /\ UNCHANGED <<keyvars, mergevars, diffvars, procvars, latevars>>

NextTask ==
    \/ \E new_name \in NewNames, force \in BOOLEAN, prefix \in TaskPrefixes :
          RunMergeTask(new_name, force, prefix)
    \/ TaskIteration
    \/ MainCheck
    \/ MainMerge
    \/ MainSave
    \/ TaskCollect

SpecTask == InitTask /\ [][NextTask]_vars

----------------------------------------------------------------------------
(* Concurrent merges into one output directory *)

MaxProcs == 2

Procs == 1..MaxProcs

\* the host names of the checklists merged concurrently
RaceHosts == {T("web01"), T("db01")}

\* the merged checklist process p is about to save
RaceMerged(p, host) ==
    [stigs |-> <<>>, target_data |-> [host_name |-> host, mac_address |-> IntStr(p)]]

\* a process at its first line: selected_merger.py at line 96, or
\* run_merge_task at line 122
RaceStart(p, kind, host) ==
    [kind |-> kind,
     pc |-> IF kind = "main" THEN "main_exists" ELSE "task_exists",
     base |-> host \o <<"_", "new", ".cklb">>,
     out_name |-> host \o <<"_", "new", ".cklb">>,
     counter |-> 1,
     merged_name |-> None,
     merged |-> RaceMerged(p, host),
     written |-> None,
     loaded |-> None]

InitRace ==
    /\ \E kinds \in [Procs -> {"main", "task"}], hosts \in [Procs -> RaceHosts] :
          proc = [p \in Procs |-> RaceStart(p, kinds[p], hosts[p])]
    /\ out_dir \in OutDirs
    /\ old_file = EmptyDict
    /\ new_file = EmptyDict
    /\ MergeIdle
    /\ LateIdle
    /\ KeyIdle
    /\ DiffIdle
    /\ TaskIdle

\* everything but proc and out_dir
racerest == <<k_rule, k_res, old_file, new_file, pc, args, heap, merged, updated,
              added, new_rules, old_in, new_in, written, result,
              file_a, file_b, diff_pc, diff_entry, output,
              selected_old_files, task_args, task, latevars>>

\* run_merge_task, lines 122-136: one test of os.path.exists by the loop;
\* when the name is free, selected_merger.py is started with -o out_path
TaskExists(p) ==
    /\ proc[p].pc = "task_exists"
    /\ IF proc[p].out_name \in DOMAIN out_dir
       THEN proc' = [proc EXCEPT ![p].out_name = proc[p].base \o <<"_">> \o IntStr(proc[p].counter),
                                 ![p].counter = @ + 1]
       ELSE proc' = [proc EXCEPT ![p].merged_name = proc[p].out_name,
                                 ![p].out_name = proc[p].base,
                                 ![p].counter = 1,
                                 ![p].pc = "main_exists"]
    /\ UNCHANGED out_dir
    /\ UNCHANGED racerest

\* main, lines 100-105: one test of os.path.exists by the loop
MainExists(p) ==
    /\ proc[p].pc = "main_exists"
    /\ IF proc[p].out_name \in DOMAIN out_dir
       THEN proc' = [proc EXCEPT ![p].out_name = proc[p].base \o <<"_">> \o IntStr(proc[p].counter),
                                 ![p].counter = @ + 1]
       ELSE proc' = [proc EXCEPT ![p].pc = "main_save"]
    /\ UNCHANGED out_dir
    /\ UNCHANGED racerest

\* main, line 107: save_cklb opens the path for writing and dumps merged
MainWrite(p) ==
    /\ proc[p].pc = "main_save"
    /\ out_dir' = SetItem(out_dir, proc[p].out_name, proc[p].merged)
    /\ proc' = [proc EXCEPT ![p].written = proc[p].out_name,
                            ![p].pc = IF proc[p].kind = "task" THEN "task_load" ELSE "done"]
    /\ UNCHANGED racerest

\* run_merge_task, lines 145-148: load_cklb(out_path)
TaskLoad(p) ==
    /\ proc[p].pc = "task_load"
    /\ IF proc[p].merged_name \in DOMAIN out_dir
       THEN proc' = [proc EXCEPT ![p].loaded = out_dir[proc[p].merged_name],
                                 ![p].pc = "done"]
       ELSE proc' = [proc EXCEPT ![p].pc = "raised"]
    /\ UNCHANGED out_dir
    /\ UNCHANGED racerest

NextRace ==
    \E p \in Procs :
        \/ TaskExists(p)
        \/ MainExists(p)
        \/ MainWrite(p)
        \/ TaskLoad(p)

SpecRace == InitRace /\ [][NextRace]_vars

----------------------------------------------------------------------------
(* Saving a checklist: FileUtils.safe_json_save (reached through            *)
(* CKLBHandler.save_cklb by upgrade_cklb_simple) and selected_merger.py     *)
(* save_cklb (called by main).  A file holds the data being serialized to   *)
(* it and the number of chunks of the serialization that have reached it.   *)

MaxChunks == 2
MaxSaves == 2

\* the documents handed to a save
SaveDocs ==
    { [stigs |-> <<>>],
      [stigs |-> <<StigDef(T("RHEL_8_STIG"), <<>>)>>] }

SavePaths == { <<"a", ".cklb">>, <<"b", ".cklb">> }

\* which function writes: main calls save_cklb of selected_merger.py, the
\* other entries end in safe_json_save
SaveEntries == {"main", "upgrade_cklb_simple", "safe_json_save"}

\* a file that was opened for writing and has received n chunks
Opened(data) == [data |-> data, chunks |-> 0]

\* safe_json_save, line 99: path.with_suffix(f"{path.suffix}.tmp")
temp_path(path) == Append(path, ".tmp")

\* the file the serialization is written to
save_target(s) ==
    IF s.entry = "main" THEN s.path ELSE temp_path(s.path)

\* what a test of a path at which there is no file yields
Absent == [exists |-> FALSE]

FileAt(d, path) == IF path \in DOMAIN d THEN d[path] ELSE Absent

\* everything but disk and save
saverest == <<earlyvars, loadvars, parsevars, stigvars, namevars, tuivars>>

InitSave ==
    /\ old_file = EmptyDict
    /\ new_file = EmptyDict
    /\ out_dir = EmptyDict
    /\ MergeIdle
    /\ KeyIdle
    /\ DiffIdle
    /\ TaskIdle
    /\ ProcIdle
    /\ TuiIdle
    /\ NameIdle
    /\ StigIdle
    /\ SaveIdle
    /\ LoadIdle
    /\ ParseIdle

\* a save begins: main has just found that the path does not exist (lines
\* 102-105), upgrade_cklb_simple and other callers pass any path
SaveStart(entry, path, data) ==
    /\ save.pc \in {"idle", "returned", "raised", "crashed"}
    /\ (IF save.pc = "idle" THEN 0 ELSE save.count) < MaxSaves
    /\ entry = "main" => path \notin DOMAIN disk
    /\ save' = [pc |-> "open", entry |-> entry, path |-> path, data |-> data,
                before |-> FileAt(disk, path),
                count |-> (IF save.pc = "idle" THEN 0 ELSE save.count) + 1]
    /\ UNCHANGED disk
    /\ UNCHANGED saverest

\* save_cklb line 35 open(path, "w") / safe_json_save line 100
\* temp_path.open('w'): the file is created or truncated
SaveOpen ==
    /\ save.pc = "open"
    /\ disk' = SetItem(disk, save_target(save), Opened(save.data))
    /\ save' = [save EXCEPT !.pc = "dump"]
    /\ UNCHANGED saverest

\* json.dump, save_cklb line 36 / safe_json_save line 101: one more chunk
\* reaches the file; after the last one the with block closes the file
SaveWrite ==
    /\ save.pc = "dump"
    /\ LET t == save_target(save)
           n == disk[t].chunks + 1
       IN  /\ disk' = [disk EXCEPT ![t].chunks = n]
           /\ save' = [save EXCEPT !.pc =
                          IF n < MaxChunks THEN "dump"
                          ELSE IF save.entry = "main" THEN "returned"
                          ELSE "replace"]
    /\ UNCHANGED saverest

\* safe_json_save line 104: temp_path.replace(path)
SaveReplace ==
    /\ save.pc = "replace"
    /\ LET t == save_target(save)
       IN  disk' = SetItem(Pop(disk, t), save.path, disk[t])
    /\ save' = [save EXCEPT !.pc = "returned"]
    /\ UNCHANGED saverest

\* open, write or replace raises (OSError): save_cklb lets the exception
\* pass, safe_json_save lines 106-108 log and re-raise; nothing is removed
SaveRaises ==
    /\ save.pc \in {"open", "dump", "replace"}
    /\ save' = [save EXCEPT !.pc = "raised"]
    /\ UNCHANGED disk
    /\ UNCHANGED saverest

\* the process is killed or the machine stops
SaveCrash ==
    /\ save.pc \in {"open", "dump", "replace"}
    /\ save' = [save EXCEPT !.pc = "crashed"]
    /\ UNCHANGED disk
    /\ UNCHANGED saverest

NextSave ==
    \/ \E entry \in SaveEntries, path \in SavePaths, data \in SaveDocs :
           SaveStart(entry, path, data)
    \/ SaveOpen
    \/ SaveWrite
    \/ SaveReplace
    \/ SaveRaises
    \/ SaveCrash

SpecSave == InitSave /\ [][NextSave]_vars

----------------------------------------------------------------------------
(* Loading a checklist: CKLBHandler.load_cklb over FileUtils.safe_json_load *)
(* and selected_merger.py load_cklb.                                        *)

MaxLoadRules == 2

\* a path at which there is no file, and a file whose text is not JSON
Malformed == [exists |-> TRUE, json |-> FALSE]

\* the rules of the documents: with and without the discussion key
LoadRuleSet ==
    { [group_id |-> V1, discussion |-> T("why")],
      [group_id |-> V1] }

\* all functions on a subset of the keys of d
Restrictions(d) == { [k \in K |-> d[k]] : K \in SUBSET DOMAIN d }

\* first StigDefinitions with any subset of stig_id, stig_name and rules
LoadStigs ==
    UNION { Restrictions([stig_id |-> T("RHEL_8_STIG"), stig_name |-> RHEL8,
                          rules |-> rules]) :
                rules \in SeqsOf(LoadRuleSet, 0, MaxLoadRules) }

\* well-formed JSON documents with any subset of stigs, title and id; stigs
\* is a list that is empty or holds one StigDefinition
LoadDocs ==
    UNION { Restrictions([stigs |-> stigs, title |-> T("RHEL 8"), id |-> T("uuid")]) :
                stigs \in {<<>>} \cup { <<stig>> : stig \in LoadStigs } }

IsDocument(f) == f # Absent /\ f # Malformed

\* InputValidator.validate_cklb_basic on a well-formed JSON object whose
\* stigs and rules values are lists
validate_cklb_basic(data) ==
    IF ~({"stigs", "title", "id"} \subseteq DOMAIN data) THEN FALSE
    ELSE IF data["stigs"] = <<>> THEN FALSE
    ELSE {"stig_id", "stig_name", "rules"} \subseteq DOMAIN data["stigs"][1]

\* FileUtils.safe_json_load: the parsed document, or the exception raised
safe_json_load(f) ==
    IF f = Absent THEN [kind |-> "raised", exc |-> "FileNotFoundError"]
    ELSE IF f = Malformed THEN [kind |-> "raised", exc |-> "ValueError"]
    ELSE [kind |-> "returned", data |-> f]

\* selected_merger.py load_cklb: open and json.load
main_load_cklb(f) ==
    IF f = Absent THEN [kind |-> "raised", exc |-> "FileNotFoundError"]
    ELSE IF f = Malformed THEN [kind |-> "raised", exc |-> "JSONDecodeError"]
    ELSE [kind |-> "returned", data |-> f]

\* everything but load_file and load_res
loadrest == <<earlyvars, savevars, parsevars, stigvars, namevars, tuivars>>

InitLoad ==
    /\ old_file = EmptyDict
    /\ new_file = EmptyDict
    /\ out_dir = EmptyDict
    /\ MergeIdle
    /\ KeyIdle
    /\ DiffIdle
    /\ TaskIdle
    /\ ProcIdle
    /\ TuiIdle
    /\ NameIdle
    /\ StigIdle
    /\ SaveIdle
    /\ ParseIdle
    /\ load_file \in {Absent, Malformed} \cup LoadDocs
    /\ load_res = [kind |-> "none"]

\* CKLBHandler.load_cklb, lines 59-71
LoadCklb ==
    /\ load_res.kind = "none"
    /\ LET r == safe_json_load(load_file)
       IN  load_res' = IF r.kind = "returned"
                       THEN [r EXCEPT !.data = handler_load_cklb(r.data)]
                       ELSE r
    /\ UNCHANGED load_file
    /\ UNCHANGED loadrest

\* selected_merger.py load_cklb, lines 30-32
MainLoadCklb ==
    /\ load_res.kind = "none"
    /\ load_res' = main_load_cklb(load_file)
    /\ UNCHANGED load_file
    /\ UNCHANGED loadrest

NextLoad ==
    \/ LoadCklb
    \/ MainLoadCklb

SpecLoad == InitLoad /\ [][NextLoad]_vars

----------------------------------------------------------------------------
(* The benchmark parser: CKLBGenerator.build_cklb (core/create_cklb.py) and *)
(* build_cklb of cklb_generator.py.  An XML element is a dict: "text" is    *)
(* its text (None for an element without text), "id" its id attribute,     *)
(* every other key a child element, with _ for the - of its name (for       *)
(* Group the list of the groups); a child the document does not have is a   *)
(* key the dict does not have.  The uuid and time stamps of the generated   *)
(* checklist are left out.                                                  *)

MaxGroups == 2

Elem(text) == [text |-> text]

OpenTag == "<VulnDiscussion>"
CloseTag == "</VulnDiscussion>"

\* position of the first occurrence of c in s from position i on, 0 if none
RECURSIVE IndexFrom(_, _, _)
IndexFrom(s, c, i) ==
    IF i > Len(s) THEN 0
    ELSE IF s[i] = c THEN i
    ELSE IndexFrom(s, c, i + 1)

\* re.search(r'<VulnDiscussion>(.*?)</VulnDiscussion>', desc_text, re.DOTALL):
\* group 1 of the match, None without a match
re_search_VulnDiscussion(desc_text) ==
    LET i == IndexFrom(desc_text, OpenTag, 1)
        j == IF i = 0 THEN 0 ELSE IndexFrom(desc_text, CloseTag, i + 1)
    IN  IF j = 0 THEN None ELSE SubSeq(desc_text, i + 1, j - 1)

\* rid_src.replace('_rule', '')
RECURSIVE replace_rule(_)
replace_rule(s) ==
    IF s = <<>> THEN s
    ELSE IF Head(s) = "_rule" THEN replace_rule(Tail(s))
    ELSE <<Head(s)>> \o replace_rule(Tail(s))

\* elem.get('id') or ""
get_id(elem) == Or(Get(elem, "id", None), <<>>)

\* elem.find(name).text or "" for a child the element has
text_or_empty(elem, name) == Or(elem[name]["text"], <<>>)

\* parse_benchmark, lines 46-51: the child nodes whose .text is read
\* without a test for None
benchmark_nodes == {"title", "release_info", "version"}

parse_benchmark_raises(root) == ~(benchmark_nodes \subseteq DOMAIN root)

parse_benchmark(root) ==
    [stig_name |-> text_or_empty(root, "title"),
     stig_id |-> get_id(root),
     release_info |-> text_or_empty(root, "release_info"),
     stig_version |-> text_or_empty(root, "version")]

\* parse_rules, lines 79-80 and 146-147: a group with a Rule raises
\* AttributeError when one of these nodes is missing
group_raises(grp) ==
    /\ "Rule" \in DOMAIN grp
    /\ \/ ~({"title", "description"} \subseteq DOMAIN grp)
       \/ ~({"version", "title"} \subseteq DOMAIN grp["Rule"])

\* core parse_rules, lines 88-89: desc_data[sec.lower()]
core_desc_data(rule_elem, sec) ==
    IF /\ "description" \in DOMAIN rule_elem
       /\ sec \in DOMAIN rule_elem["description"]
       /\ Truthy(rule_elem["description"][sec]["text"])
    THEN strip(rule_elem["description"][sec]["text"])
    ELSE <<>>

\* cklb_generator.py parse_rules, lines 51-52
script_desc_data(rule_elem, sec) ==
    IF /\ "description" \in DOMAIN rule_elem
       /\ sec \in DOMAIN rule_elem["description"]
    THEN Or(rule_elem["description"][sec]["text"], <<>>)
    ELSE <<>>

\* core parse_rules, lines 92-104
core_discussion(rule_elem) ==
    IF /\ "VulnDiscussion" \in DOMAIN rule_elem
       /\ Truthy(rule_elem["VulnDiscussion"]["text"])
    THEN strip(rule_elem["VulnDiscussion"]["text"])
    ELSE LET discussion == core_desc_data(rule_elem, "VulnDiscussion")
         IN  IF /\ ~Truthy(discussion)
                /\ "description" \in DOMAIN rule_elem
                /\ Truthy(rule_elem["description"]["text"])
             THEN LET match == re_search_VulnDiscussion(rule_elem["description"]["text"])
                  IN  IF match # None THEN strip(match) ELSE discussion
             ELSE discussion

\* parse_rules, lines 107-112
fix_text(rule_elem) ==
    LET fix_elem ==
            IF "fix" \in DOMAIN rule_elem /\ "fixtext" \in DOMAIN rule_elem["fix"]
            THEN rule_elem["fix"]["fixtext"]
            ELSE IF "fixtext" \in DOMAIN rule_elem THEN rule_elem["fixtext"]
            ELSE Elem(None)
    IN  IF Truthy(fix_elem["text"]) THEN strip(fix_elem["text"]) ELSE <<>>

\* parse_rules, lines 115-121
check_content(rule_elem) ==
    IF /\ "check" \in DOMAIN rule_elem
       /\ "check_content" \in DOMAIN rule_elem["check"]
       /\ Truthy(rule_elem["check"]["check_content"]["text"])
    THEN strip(rule_elem["check"]["check_content"]["text"])
    ELSE <<>>

\* parse_rules, lines 74-80 and 131-173: the rule of one group
parse_rule(grp, parser) ==
    LET rule_elem == grp["Rule"]
        gid_src == get_id(grp)
        rid_src == get_id(rule_elem)
        group_title == text_or_empty(grp, "title")
        group_desc == text_or_empty(grp, "description")
    IN  [group_id_src |-> gid_src,
         group_tree |-> <<[id |-> gid_src, title |-> group_title,
                           description |-> group_desc]>>,
         group_id |-> gid_src,
         group_title |-> group_title,
         rule_id_src |-> rid_src,
         rule_id |-> replace_rule(rid_src),
         rule_version |-> text_or_empty(rule_elem, "version"),
         rule_title |-> text_or_empty(rule_elem, "title"),
         fix_text |-> fix_text(rule_elem),
         check_content |-> check_content(rule_elem),
         discussion |-> IF parser = "core" THEN core_discussion(rule_elem)
                        ELSE script_desc_data(rule_elem, "VulnDiscussion"),
         false_positives |-> IF parser = "core"
                             THEN core_desc_data(rule_elem, "FalsePositives")
                             ELSE script_desc_data(rule_elem, "FalsePositives"),
         status |-> T("not_reviewed"),
         overrides |-> EmptyDict,
         comments |-> <<>>,
         finding_details |-> <<>>]

\* parse_rules: the groups that have a Rule, in document order
RECURSIVE parse_rules(_, _)
parse_rules(groups, parser) ==
    IF groups = <<>> THEN <<>>
    ELSE IF "Rule" \notin DOMAIN Head(groups) THEN parse_rules(Tail(groups), parser)
    ELSE <<parse_rule(Head(groups), parser)>> \o parse_rules(Tail(groups), parser)

\* build_cklb: the checklist, or the AttributeError of the first None.text
build_cklb(root, parser) ==
    IF \/ parse_benchmark_raises(root)
       \/ \E i \in DOMAIN root["Group"] : group_raises(root["Group"][i])
    THEN [kind |-> "raised", exc |-> "AttributeError"]
    ELSE LET b == parse_benchmark(root)
             rules == parse_rules(root["Group"], parser)
         IN  [kind |-> "returned",
              data |-> [title |-> b.stig_name,
                        stigs |-> <<[stig_name |-> b.stig_name,
                                     stig_id |-> b.stig_id,
                                     release_info |-> b.release_info,
                                     version |-> b.stig_version,
                                     size |-> Len(rules),
                                     rules |-> rules]>>,
                        target_data |-> [host_name |-> <<>>, ip_address |-> <<>>],
                        cklb_version |-> T("1.0")]]

(* XCCDF documents *)

\* the ways a benchmark export writes the discussion of a rule: as a child
\* of Rule, as a child of description, as a fragment of the description text
VulnChildren ==
    { EmptyDict,
      [VulnDiscussion |-> Elem(None)],
      [VulnDiscussion |-> Elem(<<" ">>)],
      [VulnDiscussion |-> Elem(<<" ", "child", " ">>)] }

Descriptions ==
    { Elem(None),
      Elem(<<"intro">>),
      Elem(<<"intro", OpenTag, " ", "fragment", CloseTag, "rest", CloseTag>>),
      Elem(<<OpenTag, CloseTag>>),
      [text |-> None, VulnDiscussion |-> Elem(None)],
      [text |-> None, VulnDiscussion |-> Elem(<<" ">>)],
      [text |-> None, VulnDiscussion |-> Elem(<<"sub", " ">>),
       FalsePositives |-> Elem(<<"fp">>)],
      [text |-> <<OpenTag, "fragment", CloseTag>>,
       VulnDiscussion |-> Elem(<<"sub">>)],
      [text |-> <<OpenTag, "fragment", CloseTag>>,
       VulnDiscussion |-> Elem(<<" ">>)] }

\* a Rule element with all its nodes
FullRule ==
    [text |-> None, id |-> SV1r1 \o <<"_rule">>,
     title |-> Elem(T("rule title")), version |-> Elem(T("RHEL-08-010000")),
     description |-> Elem(<<"intro">>),
     fix |-> [text |-> None, fixtext |-> Elem(<<"fix", " ">>)],
     check |-> [text |-> None, check_content |-> Elem(<<" ", "check">>)]]

OptionalRuleNodes == {"title", "version", "description", "fix", "check"}

\* the rule without some of its optional nodes
Without(elem, nodes) == [k \in DOMAIN elem \ nodes |-> elem[k]]

Rules ==
    { Update(Without(FullRule, {"description"}), Update(v, [description |-> d])) :
          v \in VulnChildren, d \in Descriptions }
    \cup { Without(FullRule, nodes) : nodes \in SUBSET OptionalRuleNodes }
    \cup { SetItem(Without(FullRule, {"fix"}), "fixtext", Elem(<<"flat">>)),
           SetItem(FullRule, "title", Elem(None)) }

FullGroup(rule) ==
    [text |-> None, id |-> V1, title |-> Elem(T("group title")),
     description |-> Elem(T("group description")), Rule |-> rule]

Groups ==
    { FullGroup(rule) : rule \in Rules }
    \cup { Without(FullGroup(FullRule), nodes) :
               nodes \in SUBSET {"title", "description", "Rule"} }

FullBenchmark(groups) ==
    [text |-> None, id |-> T("RHEL_8_STIG"), title |-> Elem(RHEL8),
     version |-> Elem(T("1")), release_info |-> Elem(T("Release: 1")),
     Group |-> groups]

\* everything but tree and cklb_json
parserest == <<earlyvars, savevars, loadvars, stigvars, namevars, tuivars>>

InitParse ==
    /\ old_file = EmptyDict
    /\ new_file = EmptyDict
    /\ out_dir = EmptyDict
    /\ MergeIdle
    /\ KeyIdle
    /\ DiffIdle
    /\ TaskIdle
    /\ ProcIdle
    /\ TuiIdle
    /\ NameIdle
    /\ StigIdle
    /\ SaveIdle
    /\ LoadIdle
    /\ \E groups \in SeqsOf(Groups, 0, MaxGroups), nodes \in SUBSET benchmark_nodes :
         /\ nodes # {} => Len(groups) = 1 /\ groups[1] = FullGroup(FullRule)
         /\ tree \in { Without(FullBenchmark(groups), nodes),
                       SetItem(FullBenchmark(groups), "version", Elem(None)) }
    /\ cklb_json = [kind |-> "none"]

\* CKLBGenerator.build_cklb over the parsed tree
CoreBuildCklb ==
    /\ cklb_json.kind = "none"
    /\ cklb_json' = build_cklb(tree, "core")
    /\ UNCHANGED tree
    /\ UNCHANGED parserest

\* cklb_generator.py build_cklb, the one generate_cklb_json of handlers.py
\* and runner.py calls
ScriptBuildCklb ==
    /\ cklb_json.kind = "none"
    /\ cklb_json' = build_cklb(tree, "script")
    /\ UNCHANGED tree
    /\ UNCHANGED parserest

NextParse ==
    \/ CoreBuildCklb
    \/ ScriptBuildCklb

SpecParse == InitParse /\ [][NextParse]_vars

----------------------------------------------------------------------------
(* tui/main.py CheckMateTUI.validate_stig_data.  The argument is an object  *)
(* with its type; the method changes a dict in place.                       *)

\* the objects of the types the method is called with
PyNone == [type |-> "NoneType"]
PyStr(s) == [type |-> "str", value |-> s]
PyDict(d) == [type |-> "dict", value |-> d]

\* the fields the method requires, and the ones it gives a default
required_fields == <<"filename", "url">>

stig_defaults ==
    [stig_id |-> T("Unknown"), version |-> None, release |-> None,
     size |-> None, last_modified |-> <<>>, type |-> T("unknown")]

\* d[k] = v, whatever d holds at k
setdefault_overwrite(d, k, v) == SetItem(d, k, v)

\* d.setdefault(k, v)
setdefault(d, k, v) == IF k \in DOMAIN d THEN d ELSE SetItem(d, k, v)

\* lines 1040-1045: the setdefault calls for the keys, in their order
RECURSIVE apply_defaults(_, _)
apply_defaults(d, keys) ==
    IF keys = <<>> THEN d
    ELSE apply_defaults(setdefault(d, Head(keys), stig_defaults[Head(keys)]),
                        Tail(keys))

default_order ==
    <<"stig_id", "version", "release", "size", "last_modified", "type">>

\* lines 1030-1037: the value of the tests that lead to return False
stig_rejected(obj) ==
    \/ obj.type # "dict"
    \/ \E i \in DOMAIN required_fields :
           \/ required_fields[i] \notin DOMAIN obj.value
           \/ ~Truthy(obj.value[required_fields[i]])

\* the values a field of a scraped entry holds: text, '', None
FieldValues == { T("x"), <<>>, None }

\* dicts with any subset of the required and of three of the optional
\* fields (the other three are never present), each with any of the values
StigDicts ==
    UNION { [K -> FieldValues] :
                K \in SUBSET {"filename", "url", "version", "size", "type"} }

StigObjects ==
    { PyNone, PyStr(T("not_a_dict")) } \cup { PyDict(d) : d \in StigDicts }

\* everything but the variables of validate_stig_data
stigrest == <<earlyvars, savevars, loadvars, parsevars, namevars, tuivars>>

InitStig ==
    /\ old_file = EmptyDict
    /\ new_file = EmptyDict
    /\ out_dir = EmptyDict
    /\ MergeIdle
    /\ KeyIdle
    /\ DiffIdle
    /\ TaskIdle
    /\ ProcIdle
    /\ TuiIdle
    /\ NameIdle
    /\ SaveIdle
    /\ LoadIdle
    /\ ParseIdle
    /\ stig_data \in StigObjects
    /\ stig_data_in = stig_data
    /\ valid = [kind |-> "none"]

\* validate_stig_data, lines 1030-1047
ValidateStigData ==
    /\ valid.kind = "none"
    /\ IF stig_rejected(stig_data)
       THEN /\ valid' = [kind |-> "returned", value |-> FALSE]
            /\ UNCHANGED stig_data
       ELSE /\ valid' = [kind |-> "returned", value |-> TRUE]
            /\ stig_data' = PyDict(apply_defaults(stig_data.value, default_order))
    /\ UNCHANGED stig_data_in
    /\ UNCHANGED stigrest

NextStig == ValidateStigData

SpecStig == InitStig /\ [][NextStig]_vars

----------------------------------------------------------------------------
(* core/web.py WebDownloader.parse_stig_filename.  A file name is a         *)
(* sequence of symbols: the characters the patterns look at (U, V, R, r,    *)
(* Y, M, _, -, the digits) one by one, any other run of letters as one      *)
(* symbol that is neither a digit nor an underscore.                        *)

MaxSegments == 2

\* \d{8}
DateLen == 8

\* name[i], and a symbol no pattern matches beyond the end of the name
At(s, i) == IF i \in 1..Len(s) THEN s[i] ELSE "<end>"

\* int(ds) of a string of digits
RECURSIVE int(_)
int(ds) ==
    IF ds = <<>> THEN 0
    ELSE LET c == ds[Len(ds)]
             v == CHOOSE n \in 0..9 : IntStr(n) = <<c>>
         IN  10 * int(SubSeq(ds, 1, Len(ds) - 1)) + v

\* the patterns of lines 365-375, in their order: with or without the
\* leading U_, the letters around the two numbers, with or without the
\* trailing _ and eight digits
patterns ==
    << [u |-> TRUE,  first |-> "V", second |-> {"R", "r"}, dated |-> TRUE,
        format |-> "version_release"],
       [u |-> TRUE,  first |-> "V", second |-> {"R", "r"}, dated |-> FALSE,
        format |-> "version_release"],
       [u |-> FALSE, first |-> "V", second |-> {"R"}, dated |-> FALSE,
        format |-> "version_release"],
       [u |-> TRUE,  first |-> "Y", second |-> {"M"}, dated |-> TRUE,
        format |-> "year_month"],
       [u |-> TRUE,  first |-> "Y", second |-> {"M"}, dated |-> FALSE,
        format |-> "year_month"],
       [u |-> FALSE, first |-> "Y", second |-> {"M"}, dated |-> FALSE,
        format |-> "year_month"] >>

\* s[b..e] matches [^_]+ only: one segment, the pattern without (?:_[^_]+)*
group1_one_segment(s, b, e) ==
    /\ b <= e
    /\ \A i \in b..e : s[i] # "_"

\* s[b..e] matches [^_]+(?:_[^_]+)*
group1(s, b, e) ==
    /\ b <= e
    /\ s[b] # "_"
    /\ s[e] # "_"
    /\ \A i \in b..(e - 1) : ~(s[i] = "_" /\ s[i + 1] = "_")

\* the number of digits the first number takes at position i: \d+ takes
\* the whole run, \d{2} two digits (0 when there are not that many)
first_digits(s, i, pat) ==
    IF pat.first = "V" THEN DigitRun(s, i)
    ELSE IF DigitRun(s, i) >= 2 THEN 2 ELSE 0

\* the rest of a pattern after group 1, which ends at e: the groups, or
\* ok = FALSE
tail(s, e, pat) ==
    LET n1 == first_digits(s, e + 3, pat)
        q == e + 3 + n1
        n2 == first_digits(s, q + 1, pat)
        t == q + 1 + n2
    IN  IF /\ At(s, e + 1) = "_"
           /\ At(s, e + 2) = pat.first
           /\ n1 >= 1
           /\ At(s, q) \in pat.second
           /\ n2 >= 1
           /\ pat.dated => At(s, t) = "_" /\ DigitRun(s, t + 1) >= DateLen
        THEN [ok |-> TRUE,
              g2 |-> SubSeq(s, e + 3, q - 1),
              g3 |-> SubSeq(s, q + 1, t - 1),
              g4 |-> IF pat.dated THEN SubSeq(s, t + 1, t + DateLen) ELSE None]
        ELSE [ok |-> FALSE]

\* the ends of group 1 with which the pattern matches from position b on
match_ends(s, b, pat) ==
    LET g == IF pat.u THEN b + 2 ELSE b
    IN  IF pat.u /\ ~(At(s, b) = "U" /\ At(s, b + 1) = "_") THEN {}
        ELSE { e \in g..Len(s) : group1(s, g, e) /\ tail(s, e, pat).ok }

\* re.search(pattern, filename): the leftmost match, group 1 as long as
\* the rest of the pattern allows; the groups, or ok = FALSE
re_search(s, pat) ==
    LET starts == { b \in 1..Len(s) : match_ends(s, b, pat) # {} }
    IN  IF starts = {} THEN [ok |-> FALSE]
        ELSE LET b == CHOOSE x \in starts : \A y \in starts : x <= y
                 ends == match_ends(s, b, pat)
                 e == CHOOSE x \in ends : \A y \in ends : y <= x
                 g == IF pat.u THEN b + 2 ELSE b
             IN  [tail(s, e, pat) EXCEPT !.ok = TRUE] @@ [g1 |-> SubSeq(s, g, e)]

\* filename.lower() of a symbol that holds letters of a keyword
symbol_lower(c) ==
    CASE c = "STIG" -> "stig"
      [] c = "Benchmark" -> "benchmark"
      [] c = "Checklist" -> "checklist"
      [] c = "Products" -> "products"
      [] c = "SRR" -> "srr"
      [] OTHER -> c

\* keyword in filename.lower(): the keywords occur as whole symbols
keyword_in(keyword, s) == \E i \in DOMAIN s : symbol_lower(s[i]) = keyword

\* lines 398-406
stig_type(s) ==
    IF keyword_in("stig", s) \/ keyword_in("benchmark", s) THEN T("stig")
    ELSE IF keyword_in("checklist", s) THEN T("checklist")
    ELSE IF keyword_in("products", s) THEN T("products")
    ELSE IF keyword_in("srr", s) THEN T("srr")
    ELSE T("unknown")

\* lines 377-396: the first pattern that matches, 0 if none does
first_pattern(s) ==
    LET hits == { i \in DOMAIN patterns : re_search(s, patterns[i]).ok }
    IN  IF hits = {} THEN 0 ELSE CHOOSE i \in hits : \A j \in hits : i <= j

\* parse_stig_filename, lines 355-408
parse_stig_filename(s) ==
    LET i == first_pattern(s)
    IN  IF i = 0
        THEN [stig_id |-> None, version |-> None, release |-> None,
              date |-> None, type |-> stig_type(s), format |-> None]
        ELSE LET m == re_search(s, patterns[i])
                 vr == patterns[i].format = "version_release"
             IN  [stig_id |-> m.g1,
                  version |-> IF vr THEN int(m.g2) ELSE <<"Y">> \o m.g2,
                  release |-> IF vr THEN int(m.g3) ELSE <<"M">> \o m.g3,
                  date |-> m.g4,
                  type |-> stig_type(s),
                  format |-> T(patterns[i].format)]

(* file names *)

\* the parts of an identifier between its underscores
Segments ==
    { <<"zOS">>, <<"V", "M", "W">>, <<"7", "-", "0">>, <<"V", "7">>, <<"1", "6">> }

\* seq of segments joined with "_"
RECURSIVE join(_)
join(segs) ==
    IF Len(segs) = 1 THEN segs[1]
    ELSE segs[1] \o <<"_">> \o join(Tail(segs))

Versions == { <<"2">>, <<"1", "2">> }
Releases == { <<"3">>, <<"0", "8">> }
Years == { <<"2", "5">> }
Months == { <<"0", "4">>, <<"1", "2">> }
Dates == { None, <<"2", "0", "2", "3", "1", "2", "0", "1">> }
NameSuffixes ==
    { <<"STIG", ".zip">>, <<"Products", ".zip">>, <<"SRR", ".zip">>, <<".zip">> }

\* the names U_<id>_V<v>R<r>[_<date>]_<suffix>, U_<id>_Y<yy>M<mm>[_<date>]_<suffix>,
\* the same without U_, and names without a version
compose(p) ==
    (IF p.u THEN <<"U", "_">> ELSE <<>>)
    \o p.id
    \o (IF p.scheme = "none" THEN <<>>
        ELSE <<"_">> \o (IF p.scheme = "version_release"
                         THEN <<"V">> \o p.v \o <<"R">> \o p.r
                         ELSE <<"Y">> \o p.v \o <<"M">> \o p.r))
    \o (IF p.date = None THEN <<>> ELSE <<"_">> \o p.date)
    \o <<"_">> \o p.suffix

\* everything but the variables of parse_stig_filename
namerest == <<earlyvars, savevars, loadvars, parsevars, stigvars, tuivars>>

InitName ==
    /\ old_file = EmptyDict
    /\ new_file = EmptyDict
    /\ out_dir = EmptyDict
    /\ MergeIdle
    /\ KeyIdle
    /\ DiffIdle
    /\ TaskIdle
    /\ ProcIdle
    /\ TuiIdle
    /\ SaveIdle
    /\ LoadIdle
    /\ ParseIdle
    /\ StigIdle
    /\ \E segs \in SeqsOf(Segments, 1, MaxSegments), u \in BOOLEAN,
          scheme \in {"version_release", "year_month", "none"},
          v \in Versions \cup Years, r \in Releases \cup Months,
          date \in Dates, suffix \in NameSuffixes :
         /\ scheme = "version_release" => v \in Versions /\ r \in Releases
         /\ scheme = "year_month" => v \in Years /\ r \in Months
         /\ scheme = "none" => v = <<"2">> /\ r = <<"3">> /\ date = None
         /\ name_parts = [u |-> u, id |-> join(segs), scheme |-> scheme,
                          v |-> v, r |-> r, date |-> date, suffix |-> suffix]
    /\ stig_filename = compose(name_parts)
    /\ file_info = [kind |-> "none"]

\* parse_stig_filename(filename)
ParseStigFilename ==
    /\ file_info.kind = "none"
    /\ file_info' = [kind |-> "returned", info |-> parse_stig_filename(stig_filename)]
    /\ UNCHANGED <<stig_filename, name_parts>>
    /\ UNCHANGED namerest

NextName == ParseStigFilename

SpecName == InitName /\ [][NextName]_vars

----------------------------------------------------------------------------
(* Checklists that repeat a key: Merge and Diff over them *)

\* the rules of a template whose keys an old checklist may repeat
IndexTemplateRules ==
    { Update([group_id_src |-> V1, group_id |-> V1, rule_id |-> SV1r2], FreshEval),
      Update([group_id_src |-> SV3r2], Fresh) }

\* the rules of two compared documents: two of one rule_id that differ in
\* status and title, and one of another rule_id
IndexDiffRules ==
    { [rule_id |-> SV1r1, group_id |-> V1, status |-> T("open"), rule_title |-> T("t1")],
      [rule_id |-> SV1r1, group_id |-> V1, status |-> T("not_a_finding"),
       rule_title |-> T("t2")],
      [rule_id |-> SV2r1, group_id |-> V2, status |-> T("open"), rule_title |-> T("t3")] }

\* the benchmarks of file A: that of file B, and one of another family
IndexBenchmarks ==
    { [stig_id |-> T("RHEL_8_STIG"), name |-> RHEL8],
      [stig_id |-> T("WIN_10_STIG"), name |-> WIN10] }

\* a run has its input files: an old checklist to merge, a file B to compare
\* with CKLBHandler.compare_cklb_versions
HasMergeInput == old_file # EmptyDict
HasDiffInput == file_b # EmptyDict

\* either an old checklist and a template of the same benchmark to merge, or
\* two documents to compare
InitIndex ==
    /\ \/ /\ \E rules \in SeqsOf(OldRuleSet, 0, MaxOldRules) :
                old_file = [stigs |-> <<StigDef(T("RHEL_8_STIG"), rules)>>,
                            target_data |-> [host_name |-> T("web01"),
                                             ip_address |-> T("10.0.0.1")],
                            cklb_version |-> T("0.9")]
          /\ \E rules \in SeqsOf(IndexTemplateRules, 0, MaxNewRules) :
                new_file = SetItem([stigs |-> <<StigDef(T("RHEL_8_STIG"), rules)>>,
                                    target_data |-> [host_name |-> <<>>,
                                                     ip_address |-> <<>>],
                                    cklb_version |-> T("1.0")],
                                   "evaluate-stig", [version |-> T("1.0")])
          /\ DiffIdle
       \/ /\ \E bm \in IndexBenchmarks, standard \in BOOLEAN,
                ra \in SeqsOf(IndexDiffRules, 0, MaxDiffRules),
                rb \in SeqsOf(IndexDiffRules, 0, MaxDiffRules) :
                  /\ file_a = IF standard THEN StandardDoc(bm, ra) ELSE FlatDoc(bm, ra)
                  /\ file_b = IF standard THEN StandardDoc(BenchmarkB, rb)
                              ELSE FlatDoc(BenchmarkB, rb)
          /\ diff_pc = "idle"
          /\ diff_entry = "none"
          /\ output = <<>>
          /\ old_file = EmptyDict
          /\ new_file = EmptyDict
    /\ out_dir = EmptyDict
    /\ MergeIdle
    /\ LateIdle
    /\ KeyIdle
    /\ TaskIdle
    /\ ProcIdle

NextIndex ==
    \/ HasMergeInput /\ Next
    \/ HasDiffInput /\ CoreCompare

SpecIndex == InitIndex /\ [][NextIndex]_vars

----------------------------------------------------------------------------
(* tui/main.py CheckMateTUI: the menus *)

\* the most files a listed directory holds
MaxListed == 2

\* __init__, lines 55-65
main_menu_options ==
    <<"Generate CKLB from XCCDF", "Import CKLB Files", "Compare CKLB Versions",
      "Download STIGs", "File Management", "Create Inventory",
      "View Configuration", "View Logs", "Exit">>

\* the sorted names of the n listed files of a directory
Listing(n) == [i \in 1..n |-> i]

\* refresh_file_lists: the lists the menus read, from the directories as
\* they are (xccdf from 'tmp', lib_cklb from 'cklb_new'; the usr_cklb and
\* zip lists are refreshed alike and no menu index depends on them)
refresh_file_lists(d) ==
    [xccdf |-> Listing(d.tmp), lib_cklb |-> Listing(d.cklb_new)]

\* max(a, b), min(a, b)
max(a, b) == IF a >= b THEN a ELSE b
min(a, b) == IF a <= b THEN a ELSE b

\* get_max_selection_index
get_max_selection_index(menu, lists) ==
    CASE menu = "main" -> Len(main_menu_options) - 1
      [] menu = "generate" -> max(0, Len(lists.xccdf) - 1)
      [] menu = "compare" -> max(0, Len(lists.lib_cklb) - 1)
      [] menu = "download" -> 3
      [] menu = "files" -> 5
      [] OTHER -> 0

\* the keys main_loop hands to handle_input
TuiKeys == {"q", "ESC", "UP", "DOWN", "ENTER", "r", "other"}

\* a directory gains a file, or a file of that name is there already
Gains(n) == {n, min(MaxListed, n + 1)}

\* the TUI as __init__ leaves it, over directories with some files
InitTui ==
    /\ dirs \in [tmp : 0..MaxListed, cklb_new : 0..MaxListed]
    /\ file_lists = refresh_file_lists(dirs)
    /\ current_menu = "main"
    /\ selected_idx = 0
    /\ getch = "none"
    /\ exited = FALSE
    /\ old_file = EmptyDict
    /\ new_file = EmptyDict
    /\ out_dir = EmptyDict
    /\ MergeIdle
    /\ KeyIdle
    /\ DiffIdle
    /\ TaskIdle
    /\ ProcIdle
    /\ SaveIdle
    /\ LoadIdle
    /\ ParseIdle
    /\ StigIdle
    /\ NameIdle

tuirest == <<earlyvars, savevars, loadvars, parsevars, stigvars, namevars>>

\* main_loop: getch returned k and handle_input(k) runs
Pressed(k) ==
    /\ ~exited
    /\ getch' = k
    /\ UNCHANGED tuirest

\* handle_input, lines 509-510: q or Q
KeyQuit ==
    /\ Pressed("q")
    /\ exited' = TRUE
    /\ UNCHANGED <<current_menu, selected_idx, file_lists, dirs>>

\* lines 512-515: ESC
KeyEsc ==
    /\ Pressed("ESC")
    /\ IF current_menu # "main"
       THEN current_menu' = "main" /\ selected_idx' = 0
       ELSE UNCHANGED <<current_menu, selected_idx>>
    /\ UNCHANGED <<file_lists, dirs, exited>>

\* lines 517-518: KEY_UP
KeyUp ==
    /\ Pressed("UP")
    /\ selected_idx' = max(0, selected_idx - 1)
    /\ UNCHANGED <<current_menu, file_lists, dirs, exited>>

\* lines 520-522: KEY_DOWN
KeyDown ==
    /\ Pressed("DOWN")
    /\ selected_idx' = min(get_max_selection_index(current_menu, file_lists),
                           selected_idx + 1)
    /\ UNCHANGED <<current_menu, file_lists, dirs, exited>>

\* lines 527-530: r or R
KeyRefresh ==
    /\ Pressed("r")
    /\ file_lists' = refresh_file_lists(dirs)
    /\ UNCHANGED <<current_menu, selected_idx, dirs, exited>>

\* any other key
KeyOther ==
    /\ Pressed("other")
    /\ UNCHANGED <<current_menu, selected_idx, file_lists, dirs, exited>>

\* handle_main_menu_selection: the menu an option opens, "" for the options
\* that open none
menu_of(option) ==
    CASE option = "Generate CKLB from XCCDF" -> "generate"
      [] option = "Compare CKLB Versions" -> "compare"
      [] option = "Download STIGs" -> "download"
      [] option = "File Management" -> "files"
      [] option = "View Configuration" -> "config"
      [] option = "View Logs" -> "logs"
      [] OTHER -> ""

\* import_cklb_files: the browser dialog is cancelled, or files are copied
\* to cklb_artifacts and the lists are refreshed
import_cklb_files ==
    /\ file_lists' \in {file_lists, refresh_file_lists(dirs)}
    /\ UNCHANGED dirs

\* handle_main_menu_selection (create_inventory and the value returned for
\* "Exit", which handle_selection drops, change nothing)
handle_main_menu_selection ==
    LET option == main_menu_options[selected_idx + 1]
    IN  IF menu_of(option) # ""
        THEN /\ current_menu' = menu_of(option)
             /\ selected_idx' = 0
             /\ UNCHANGED <<file_lists, dirs>>
        ELSE IF option = "Import CKLB Files"
        THEN import_cklb_files /\ UNCHANGED <<current_menu, selected_idx>>
        ELSE UNCHANGED <<current_menu, selected_idx, file_lists, dirs>>

\* handle_generate_selection: generate_cklb_from_xccdf writes
\* cklb_new/<stem>.cklb from the selected file, if 'tmp' still holds it, and
\* refreshes the lists, or fails
handle_generate_selection ==
    /\ IF file_lists.xccdf # <<>> /\ selected_idx < Len(file_lists.xccdf)
       THEN \/ /\ file_lists.xccdf[selected_idx + 1] <= dirs.tmp
               /\ \E n \in Gains(dirs.cklb_new) :
                     /\ dirs' = [dirs EXCEPT !.cklb_new = n]
                     /\ file_lists' = refresh_file_lists(dirs')
            \/ UNCHANGED <<file_lists, dirs>>
       ELSE UNCHANGED <<file_lists, dirs>>
    /\ UNCHANGED <<current_menu, selected_idx>>

\* handle_download_selection: fetch_download_list may end in a download
\* that creates a checklist in cklb_new and refreshes the lists; the other
\* options change no list
handle_download_selection ==
    /\ IF selected_idx = 0
       THEN \/ \E n \in Gains(dirs.cklb_new) :
                  /\ dirs' = [dirs EXCEPT !.cklb_new = n]
                  /\ file_lists' = refresh_file_lists(dirs')
            \/ UNCHANGED <<file_lists, dirs>>
       ELSE UNCHANGED <<file_lists, dirs>>
    /\ UNCHANGED <<current_menu, selected_idx>>

\* handle_file_selection: import, and clean_temp_files, which empties 'tmp'
\* and refreshes nothing
handle_file_selection ==
    /\ CASE selected_idx = 0 -> import_cklb_files
         [] selected_idx = 2 -> dirs' = [dirs EXCEPT !.tmp = 0] /\ UNCHANGED file_lists
         [] OTHER -> UNCHANGED <<file_lists, dirs>>
    /\ UNCHANGED <<current_menu, selected_idx>>

\* lines 524-525 and handle_selection: Enter
KeyEnter ==
    /\ Pressed("ENTER")
    /\ CASE current_menu = "main" -> handle_main_menu_selection
         [] current_menu = "generate" -> handle_generate_selection
         [] current_menu = "compare" ->
                UNCHANGED <<current_menu, selected_idx, file_lists, dirs>>
         [] current_menu = "download" -> handle_download_selection
         [] current_menu = "files" -> handle_file_selection
         [] OTHER -> UNCHANGED <<current_menu, selected_idx, file_lists, dirs>>
    /\ UNCHANGED exited

NextTui ==
    \/ KeyQuit
    \/ KeyEsc
    \/ KeyUp
    \/ KeyDown
    \/ KeyEnter
    \/ KeyRefresh
    \/ KeyOther

SpecTui == InitTui /\ [][NextTui]_vars

----------------------------------------------------------------------------
(* Vocabulary of the properties *)

\* the merge has ended, with a result or with an error
Finished == pc \in {"done", "reported"}

\* the merge has ended with a merged checklist written
Succeeded ==
    /\ Finished
    /\ \/ result.kind = "return"
       \/ result.kind = "exit" /\ result.code = 0

\* the merge has ended with the STIG identity mismatch error
MismatchError == Finished /\ result.kind = "exit" /\ result.code = 2

\* the caller asked for a merge across STIG identities
Forced == args.entry = "main" /\ args.force

\* the rules of the first StigDefinition of a document
RulesOf(doc) ==
    IF "stigs" \in DOMAIN doc /\ doc["stigs"] # <<>> THEN doc["stigs"][1]["rules"]
    ELSE <<>>

\* the stig_id of the first StigDefinition of a document
StigIdOf(doc) ==
    IF "stigs" \in DOMAIN doc /\ doc["stigs"] # <<>> /\ "stig_id" \in DOMAIN doc["stigs"][1]
    THEN doc["stigs"][1]["stig_id"]
    ELSE T("UNKNOWN")

OldRules == RulesOf(old_in)
TemplateRules == RulesOf(new_in)

\* the merged checklist: the output file of a merge that succeeded
MergedRules == RulesOf(out_dir[result.output])

\* the key the running merge engine indexes rules by
EngineKey(rule) == IF args.entry = "main" THEN Gid(rule) ELSE get_rule_key(rule)

\* the keys of the old rules, by position: as the running merge engine
\* takes them, and as the rule identity resolver takes them
EngineKeys == [j \in DOMAIN OldRules |-> EngineKey(OldRules[j])]
ComparisonKeys == [j \in DOMAIN OldRules |-> get_rule_key(OldRules[j])]

\* the key k occurs in the old checklist, whose rules have the keys `keys`
InOld(keys, k) == \E j \in DOMAIN keys : keys[j] = k

\* the old rule of key k (the last one, should there be several)
OldRule(keys, k) ==
    OldRules[CHOOSE j \in DOMAIN keys :
                /\ keys[j] = k
                /\ \A l \in DOMAIN keys : keys[l] = k => l <= j]

FindingFields == {"status", "comments", "finding_details"}

\* rule carries, in each field of F that old carries, the value of old
Carries(rule, old, F) ==
    \A f \in F : f \in DOMAIN old => f \in DOMAIN rule /\ rule[f] = old[f]

\* the entry of rule in main's added list
AddedEntry(rule) == <<Gid(rule), Get(rule, "rule_title", T("UNKNOWN TITLE"))>>

\* rule is reported as added by selected_merger.py
InAdded(rule) ==
    /\ \E n \in DOMAIN added : added[n] = AddedEntry(rule)
    /\ \E n \in DOMAIN new_rules :
          /\ new_rules[n].group_id_src = Gid(rule)
          /\ new_rules[n].rule_title = Get(rule, "rule_title", <<>>)

\* rule is reported as new by the handler
InNewRules(rule) == \E n \in DOMAIN new_rules : new_rules[n] = rule

----------------------------------------------------------------------------
(* C1 - C3: what Merge does to the rules *)

C2_NewRulesKept ==
    Succeeded =>
        \A i \in DOMAIN TemplateRules :
            ~InOld(EngineKeys, EngineKey(TemplateRules[i])) =>
                /\ i \in DOMAIN MergedRules
                /\ MergedRules[i] = TemplateRules[i]
                /\ MergedRules[i]["status"] = T("not_reviewed")
                /\ args.entry = "main" => InAdded(TemplateRules[i])
                /\ pc = "reported" => InNewRules(TemplateRules[i])

\* old has V-1 with findings, the template has V-1 and the new V-2
C2_Witness ==
    /\ Succeeded /\ args.entry = "main"
    /\ Len(OldRules) = 1 /\ Gid(OldRules[1]) = V1
    /\ Len(TemplateRules) = 2
    /\ Gid(TemplateRules[1]) = V1 /\ Gid(TemplateRules[2]) = V2
    /\ MergedRules[2] = TemplateRules[2]
    /\ added = <<AddedEntry(TemplateRules[2])>>

\* C3: whatever the old checklist holds, the merged checklist has the rules
\* of the template, in the template's order: the same number of rules and at
\* each position the same identity fields and the same comparison key.
C3_NoFabricatedRules ==
    Succeeded =>
        /\ Len(MergedRules) = Len(TemplateRules)
        /\ \A i \in DOMAIN TemplateRules :
              /\ get_rule_key(MergedRules[i]) = get_rule_key(TemplateRules[i])
              /\ \A n \in DOMAIN KeyFields :
                    Get(MergedRules[i], KeyFields[n], None)
                        = Get(TemplateRules[i], KeyFields[n], None)

\* the old checklist has a rule the template lacks, and the template has two
\* different rules of which one is matched
C3_Witness ==
    /\ Succeeded
    /\ Len(TemplateRules) = 2
    /\ get_rule_key(TemplateRules[1]) # get_rule_key(TemplateRules[2])
    /\ updated = 1
    /\ \E j \in DOMAIN OldRules :
          \A i \in DOMAIN TemplateRules :
              /\ get_rule_key(OldRules[j]) # get_rule_key(TemplateRules[i])
              /\ Gid(OldRules[j]) # Gid(TemplateRules[i])

----------------------------------------------------------------------------
(* C4 - C6, C9, C10: the gate, overrides, the matching key, the inputs *)

\* C4: a merge of two checklists whose STIG ids differ ends with the
\* mismatch error and without a written file unless the caller forced it,
\* and with a written output when the caller forced it.
C4_MismatchGate ==
    Finished /\ StigIdOf(old_in) # StigIdOf(new_in) =>
        IF Forced THEN Succeeded /\ written # <<>>
        ELSE MismatchError /\ written = <<>>

\* C5: after a successful merge, every template rule whose rule key occurs
\* in the old checklist carries the old rule's overrides.
C5_OverridesSurvive ==
    Succeeded =>
        \A i \in DOMAIN TemplateRules :
            LET k == EngineKey(TemplateRules[i])
            IN  Truthy(k) /\ InOld(EngineKeys, k) =>
                    /\ i \in DOMAIN MergedRules
                    /\ Carries(MergedRules[i], OldRule(EngineKeys, k), {"overrides"})

\* C6: after a successful merge, every template rule whose comparison key
\* (get_rule_key) is non-empty and is the comparison key of an old rule
\* carries that old rule's findings and is not reported as added.
C6_MergeUsesComparisonKey ==
    Succeeded =>
        \A i \in DOMAIN TemplateRules :
            LET k == get_rule_key(TemplateRules[i])
            IN  Truthy(k) /\ InOld(ComparisonKeys, k) =>
                    /\ i \in DOMAIN MergedRules
                    /\ Carries(MergedRules[i], OldRule(ComparisonKeys, k), FindingFields)
                    /\ \A n \in DOMAIN added : added[n] # AddedEntry(TemplateRules[i])
                    /\ pc = "reported" => ~InNewRules(TemplateRules[i])

\* C9: after a successful merge, every template rule without identity
\* (comparison key '') is in the merged checklist exactly as the template
\* has it, and is reported as added.
C9_EmptyKeysNeverMatch ==
    Succeeded =>
        \A i \in DOMAIN TemplateRules :
            get_rule_key(TemplateRules[i]) = <<>> =>
                /\ i \in DOMAIN MergedRules
                /\ MergedRules[i] = TemplateRules[i]
                /\ args.entry = "main" =>
                      \E n \in DOMAIN added : added[n] = AddedEntry(TemplateRules[i])
                /\ pc = "reported" => InNewRules(TemplateRules[i])

\* C10: no step of a merge changes the old or the new file, and once both
\* documents are loaded no step changes the old or the new document in
\* memory, whether the merge ends with a result or with the mismatch error.
C10_InputsNotEdited ==
    [][/\ old_file' = old_file
       /\ new_file' = new_file
       /\ pc # "idle" => /\ heap'["old_data"] = heap["old_data"]
                         /\ heap'["new_data"] = heap["new_data"]]_vars

\* a merge that changed a rule of its copy of the template has ended
C10_Witness ==
    /\ Succeeded
    /\ args.entry = "main"
    /\ updated >= 1
    /\ heap[merged] # new_in
    /\ RulesOf(heap[merged]) # RulesOf(new_in)
    /\ heap["new_data"] = new_file
    /\ heap["old_data"] = old_file

----------------------------------------------------------------------------
(* C7, C8: the rule identity resolver *)

\* val starts with SV- followed by at least one digit
StartsWithSVDigits(val) ==
    /\ Len(val) >= 4
    /\ SubSeq(val, 1, 3) = SV
    /\ val[4] \in Digits

\* the identity fields of rule that hold a non-empty value, by position
FieldsHeld(rule) == {i \in DOMAIN KeyFields : Truthy(Get(rule, KeyFields[i], None))}

\* the value of the first identity field of rule that holds one
FirstIdentifier(rule) ==
    rule[KeyFields[CHOOSE i \in FieldsHeld(rule) : \A j \in FieldsHeld(rule) : i <= j]]

\* C7 as stated: the key of SV-<digits><suffix> is the key of SV-<digits>,
\* for every digit string and every suffix, and an identifier that does
\* not start with SV-<digits> is its own key.
C7_KeyStabilityAnySuffix ==
    /\ k_res.op = "pair" => k_res.full = k_res.alone
    /\ k_res.op = "get_rule_key" /\ FieldsHeld(k_rule) # {}
          /\ ~StartsWithSVDigits(FirstIdentifier(k_rule))
          => k_res.key = FirstIdentifier(k_rule)

\* C7: the key of SV-<digits><suffix> is the key of SV-<digits>, namely
\* SV-<digits>, for every digit string and every suffix that does not begin
\* with a digit, and an identifier that does not start with SV-<digits> is
\* its own key.
C7_KeyStability ==
    /\ k_res.op = "pair" /\ (k_res.suffix = <<>> \/ k_res.suffix[1] \notin Digits)
          => /\ k_res.full = k_res.alone
             /\ k_res.alone = SV \o k_res.digits
    /\ k_res.op = "get_rule_key" /\ FieldsHeld(k_rule) # {}
          /\ ~StartsWithSVDigits(FirstIdentifier(k_rule))
          => k_res.key = FirstIdentifier(k_rule)

\* the key of SV-12r_ was resolved
C7_Witness ==
    /\ k_res.op = "pair"
    /\ k_res.digits = <<"1", "2">>
    /\ k_res.suffix = <<"r", "_">>
    /\ k_rule = [f \in {k_res.field} |-> <<"S", "V", "-", "1", "2", "r", "_">>]
    /\ k_res.full = <<"S", "V", "-", "1", "2">>

\* C8: the key of a rule is derived from the first of rule_id, id, Rule_ID,
\* group_id_src, group_id that holds a value (its SV-<digits> prefix, else
\* the value), and is '' when none of them holds one; for both resolvers.
C8_FirstFieldDecides ==
    k_res.op \in {"get_rule_key", "rule_key"} =>
        IF FieldsHeld(k_rule) = {} THEN k_res.key = <<>>
        ELSE LET val == FirstIdentifier(k_rule)
             IN  k_res.key = IF StartsWithSVDigits(val)
                             THEN SubSeq(val, 1, 3 + DigitRun(val, 4))
                             ELSE val

----------------------------------------------------------------------------
(* C11 - C13: descriptive fields, host identity, the counts *)

\* the fields of a rule Merge may write, and those of its evaluate-stig block
MergeFields == {"status", "comments", "finding_details", "overrides", "evaluate-stig"}
MergeEvalFields == {"old_status", "new_status"}

\* a and b carry the same fields with the same values, the fields of F aside
SameExcept(a, b, F) ==
    /\ DOMAIN a \ F = DOMAIN b \ F
    /\ \A f \in DOMAIN a \ F : a[f] = b[f]

\* the merged checklist: the output file of a merge that succeeded
MergedDoc == out_dir[result.output]

\* the key k is in the index the running merge engine builds from the old
\* rules; main leaves the rules without group_id_src out of its index
InOldIndex(k) == InOld(EngineKeys, k) /\ (args.entry = "main" => Truthy(k))

\* C11: after a successful merge every rule of the merged checklist has the
\* template rule's value in every field other than status, comments,
\* finding_details, overrides and evaluate-stig, and in every field of its
\* evaluate-stig block other than old_status and new_status; a rule whose
\* key is the key of no old rule is the template rule unchanged.
C11_DescriptiveFromTemplate ==
    Succeeded =>
        /\ Len(MergedRules) = Len(TemplateRules)
        /\ \A i \in DOMAIN TemplateRules :
              LET m == MergedRules[i]
                  t == TemplateRules[i]
              IN  /\ SameExcept(m, t, MergeFields)
                  /\ "evaluate-stig" \in DOMAIN m <=> "evaluate-stig" \in DOMAIN t
                  /\ "evaluate-stig" \in DOMAIN t =>
                        SameExcept(m["evaluate-stig"], t["evaluate-stig"], MergeEvalFields)
                  /\ ~InOld(EngineKeys, EngineKey(t)) => m = t

\* a matched rule took the old findings and kept the template's title,
\* discussion and answer file, all three different in the old rule
C11_Witness ==
    /\ Succeeded
    /\ \E i \in DOMAIN TemplateRules :
          LET k == EngineKey(TemplateRules[i])
          IN  /\ Truthy(k) /\ InOld(EngineKeys, k)
              /\ OldRule(EngineKeys, k) = Update(OldRule(EngineKeys, k), Reviewed)
              /\ "evaluate-stig" \in DOMAIN TemplateRules[i]
              /\ MergedRules[i]["status"] = T("open")
              /\ MergedRules[i]["rule_title"] = T("new title")
              /\ MergedRules[i]["discussion"] = T("d2")
              /\ MergedRules[i]["evaluate-stig"]["answer_file"] = T("bench.xml")
              /\ OldRule(EngineKeys, k)["evaluate-stig"]["answer_file"] = T("old.xml")

\* C12: after a successful merge the merged checklist has the target_data
\* and the cklb_version of the old checklist, where the old checklist
\* carries them.
C12_HostIdentityFromOld ==
    Succeeded =>
        /\ "target_data" \in DOMAIN old_in =>
              /\ "target_data" \in DOMAIN MergedDoc
              /\ MergedDoc["target_data"] = old_in["target_data"]
        /\ "cklb_version" \in DOMAIN old_in =>
              /\ "cklb_version" \in DOMAIN MergedDoc
              /\ MergedDoc["cklb_version"] = old_in["cklb_version"]

\* the template rules outside the old index, in template order
RulesToAdd ==
    Pick(TemplateRules,
         {i \in DOMAIN TemplateRules : ~InOldIndex(EngineKey(TemplateRules[i]))}, 1)

----------------------------------------------------------------------------
(* C14 - C16: Diff *)

\* Diff has returned its report
DiffDone == diff_pc = "done"

\* the rules of a document, wherever it holds them
DocRules(doc) == IF "stigs" \in DOMAIN doc THEN RulesOf(doc) ELSE Get(doc, "rules", <<>>)

\* the comparison keys of the rules of a document, by position
DocKeySeq(doc) == [i \in DOMAIN DocRules(doc) |-> get_rule_key(DocRules(doc)[i])]

\* the rule index of a document: its comparison keys, and the rule of each
\* (the last one, should there be several)
DocKeys(doc) == {DocKeySeq(doc)[i] : i \in DOMAIN DocKeySeq(doc)}
DocRule(doc, k) ==
    DocRules(doc)[CHOOSE i \in DOMAIN DocKeySeq(doc) :
                     /\ DocKeySeq(doc)[i] = k
                     /\ \A j \in DOMAIN DocKeySeq(doc) : DocKeySeq(doc)[j] = k => j <= i]

\* the rule ids of the report lines of the given kinds
ReportedIds(tags) ==
    {output[n].rid : n \in {m \in DOMAIN output : output[m].tag \in tags}}

\* the finding value of a rule: status, else finding, else Finding
FindingOf(rule) ==
    IF Truthy(Get(rule, "status", None)) THEN rule["status"]
    ELSE IF Truthy(Get(rule, "finding", None)) THEN rule["finding"]
    ELSE Get(rule, "Finding", None)

\* the status differences of the report: key, value in A, value in B
StatusDiffs ==
    {<<output[n].rid, output[n].a, output[n].b>> :
        n \in {m \in DOMAIN output : output[m].tag = "DIFF"}}

\* the STIG identity a document exposes, None when it exposes none
ExposedId(doc) ==
    IF "stigs" \in DOMAIN doc /\ doc["stigs"] # <<>>
    THEN Get(doc["stigs"][1], "stig_id", None)
    ELSE None

IdentitiesDiffer ==
    /\ Truthy(ExposedId(file_a)) /\ Truthy(ExposedId(file_b))
    /\ ExposedId(file_a) # ExposedId(file_b)

\* C14: the report of Diff(a, b) lists as only in A exactly the comparison
\* keys of a's rules that no rule of b has, and as only in B exactly the
\* comparison keys of b's rules that no rule of a has.
C14_BothSidesReported ==
    DiffDone =>
        /\ ReportedIds({"only_in_a", "ONLY IN A"}) = DocKeys(file_a) \ DocKeys(file_b)
        /\ ReportedIds({"new_in_b", "ONLY IN B"}) = DocKeys(file_b) \ DocKeys(file_a)

\* C15: the report of Diff(a, b) holds a status difference for a comparison
\* key exactly when both documents have a rule of that key and the finding
\* values of the two rules differ, and it then holds the two values.
C15_StatusDiffsReported ==
    DiffDone =>
        StatusDiffs =
            {<<k, FindingOf(DocRule(file_a, k)), FindingOf(DocRule(file_b, k))>> :
                k \in {x \in DocKeys(file_a) \cap DocKeys(file_b) :
                          FindingOf(DocRule(file_a, x)) # FindingOf(DocRule(file_b, x))}}

\* C16: once Diff runs on two documents that expose different STIG
\* identities, its report begins with the mismatch warning, a rule
\* comparison follows the warning, and Diff is never waiting for a key and
\* never cancels.
C16_MismatchWarnsThenDiffs ==
    IdentitiesDiffer /\ diff_pc # "idle" =>
        /\ diff_pc # "read_key"
        /\ output # <<>>
        /\ output[1].tag = "WARNING"
        /\ \E n \in 2..Len(output) : output[n].tag = "Comparing"
        /\ \A n \in DOMAIN output : output[n].tag # "cancelled"

----------------------------------------------------------------------------
(* C17, C18: the name of the output file *)

\* the n-th candidate for a base name: base, base_1, base_2, ...
Candidate(base, n) == IF n = 0 THEN base ELSE base \o <<"_">> \o IntStr(n)

\* the first candidate for base that is not among names
FirstFree(base, names) ==
    Candidate(base, CHOOSE n \in 0..Cardinality(names) :
                        /\ Candidate(base, n) \notin names
                        /\ \A m \in 0..(n - 1) : Candidate(base, m) \in names)

\* v is a str with something other than blanks in it
NonBlank(v) == v # None /\ strip(v) # <<>>

\* the host identifier of the naming policy: host_name when non-blank, else
\* the prefix when supplied, else the base name of the old file
HostIdentifier(doc, prefix, path) ==
    LET host_name == Get(Get(doc, "target_data", EmptyDict), "host_name", None)
    IN  IF NonBlank(host_name) THEN host_name
        ELSE IF NonBlank(prefix) THEN prefix
        ELSE stem(basename(path))

\* the base name the running selected_merger.py starts its search from
MainBase ==
    (IF Truthy(args.prefix) THEN args.prefix
     ELSE IF Truthy(Get(Get(old_in, "target_data", EmptyDict), "host_name", None))
     THEN old_in["target_data"]["host_name"]
     ELSE stem(basename(args.old_cklb)))
    \o <<"_">> \o basename(args.new_cklb)

\* C17: whenever a merge writes its output, the file it writes did not
\* exist, every file of the directory is left as it was, so that the name
\* differs from the names of the earlier merges of the pair; for
\* selected_merger.py the name is the first of base, base_1, base_2, ...
\* that did not exist.
C17_NeverOverwrites ==
    [][written' # written =>
          LET name == written'[Len(written')]
          IN  /\ written' = Append(written, name)
              /\ name \notin DOMAIN out_dir
              /\ \A n \in DOMAIN written : written[n] # name
              /\ \A f \in DOMAIN out_dir :
                    f \in DOMAIN out_dir' /\ out_dir'[f] = out_dir[f]
              /\ args.entry = "main" => name = FirstFree(MainBase, DOMAIN out_dir)]_vars

\* C18: the output of selected_merger.py is named after the host
\* identifier: "{identifier}_{template base name}", or that name with the
\* _n the uniqueness search appended.
C18_NamedAfterHost ==
    Succeeded /\ args.entry = "main" =>
        LET base == HostIdentifier(old_in, args.prefix, args.old_cklb)
                        \o <<"_">> \o basename(args.new_cklb)
        IN  \E n \in 0..(MaxRuns + 1) : result.output = Candidate(base, n)

----------------------------------------------------------------------------
(* C19: a batch with a checklist that has no host name *)

\* run_merge_task has returned to its caller
TaskReturned == task.pc = "done"

\* the merge of the i-th selected checklist is allowed: same STIG id, or forced
MergeAllowed(i) ==
    task_args.force \/ StigIdOf(selected_old_files[i]) = StigIdOf(new_file)

\* the caller was given a result for the i-th selected checklist: a file
\* of the output directory named after the checklist's host identifier
ResultFor(i) ==
    LET base == HostIdentifier(selected_old_files[i], task_args.prefix, old_path(i))
                    \o <<"_">> \o task_args.new_name
    IN  \E n \in DOMAIN task.returned :
            /\ task.returned[n].merged_name \in DOMAIN out_dir
            /\ \E k \in 0..(MaxFiles + 1) : task.returned[n].merged_name = Candidate(base, k)

\* C19: when run_merge_task has returned from a batch started without a
\* prefix, every selected checklist whose merge is allowed, with or without
\* a host name, has its merge output written and the result the caller
\* receives names it after the checklist's host identifier: host_name, or
\* the fallback.
C19_BlankHostNeverAborts ==
    /\ TaskReturned
    /\ selected_old_files # <<>> /\ Truthy(task_args.new_name)
    /\ ~NonBlank(task_args.prefix)
    => \A i \in DOMAIN selected_old_files : MergeAllowed(i) => ResultFor(i)

----------------------------------------------------------------------------
(* C20: concurrent merges *)

\* C20: under every interleaving of the existence tests and the writes of
\* the concurrent merges, two merges that have written their output have
\* written to different names, and the file of each still holds what that
\* merge wrote.
C20_DistinctOutputs ==
    \A p \in DOMAIN proc, q \in DOMAIN proc :
        /\ p # q
        /\ proc[p].written # None
        /\ proc[q].written # None
        => /\ proc[p].written # proc[q].written
           /\ out_dir[proc[p].written] = proc[p].merged

----------------------------------------------------------------------------
(* C21, C22: atomic save *)

\* a file that holds the whole serialization of a document
Whole(data) == [data |-> data, chunks |-> MaxChunks]

Complete(f) == f.chunks = MaxChunks

\* a temporary file of safe_json_save
IsTemp(path) == path[Len(path)] = ".tmp"

\* the save is a step of a Merge
MergeSave == save.pc # "idle" /\ save.entry \in {"main", "upgrade_cklb_simple"}

\* C21: at every point of every save path the destination holds either what
\* it held before the save began (nothing, when it did not exist) or the
\* whole new document, never a part of a document
C21_SaveAtomic ==
    save.pc # "idle" =>
        FileAt(disk, save.path) \in {save.before, Whole(save.data)}

\* C22: while and after a Merge writes its output, also when the write
\* fails or is interrupted, no file of the output directory other than a
\* temporary one holds a part of a document, and a Merge that completes
\* leaves its whole output
C22_NoPartialOutput ==
    MergeSave =>
        /\ \A path \in DOMAIN disk : ~IsTemp(path) => Complete(disk[path])
        /\ save.pc = "returned" => FileAt(disk, save.path) = Whole(save.data)

----------------------------------------------------------------------------
(* C23: Load rejects every unusable input *)

\* the error of the taxonomy an exception stands for
ErrorOf(exc) ==
    IF exc = "FileNotFoundError" THEN "NotFound"
    ELSE IF exc \in {"ValueError", "JSONDecodeError"} THEN "InvalidJSON"
    ELSE exc

LoadError(e) == load_res.kind = "raised" /\ ErrorOf(load_res.exc) = e

\* C23: a load of a missing file ends with NotFound, of malformed JSON with
\* InvalidJSON, of a document that fails the minimal validation with
\* SchemaInvalid; only a document that passes the validation is returned
C23_LoadRejectsUnusable ==
    load_res.kind # "none" =>
        /\ load_file = Absent => LoadError("NotFound")
        /\ load_file = Malformed => LoadError("InvalidJSON")
        /\ (IsDocument(load_file) /\ ~validate_cklb_basic(load_file)) =>
               LoadError("SchemaInvalid")
        /\ load_res.kind = "returned" =>
               IsDocument(load_file) /\ validate_cklb_basic(load_file)

----------------------------------------------------------------------------
(* C24, C25: the benchmark parser *)

Parsed == cklb_json.kind = "returned"

\* the Rule elements of the document, in document order
RECURSIVE RuleElems(_)
RuleElems(groups) ==
    IF groups = <<>> THEN <<>>
    ELSE IF "Rule" \in DOMAIN Head(groups)
         THEN <<Head(groups)["Rule"]>> \o RuleElems(Tail(groups))
         ELSE RuleElems(Tail(groups))

ParsedRules == cklb_json.data["stigs"][1]["rules"]

\* the text of a child element without its surrounding blanks, '' for a
\* child that is absent or has no text
ChildText(elem, name) ==
    IF name \in DOMAIN elem /\ elem[name]["text"] # None
    THEN strip(elem[name]["text"])
    ELSE <<>>

\* the three places of a discussion, in the order of preference
DiscussionTiers(rule_elem) ==
    << ChildText(rule_elem, "VulnDiscussion"),
       IF "description" \in DOMAIN rule_elem
       THEN ChildText(rule_elem["description"], "VulnDiscussion")
       ELSE <<>>,
       IF /\ "description" \in DOMAIN rule_elem
          /\ rule_elem["description"]["text"] # None
          /\ re_search_VulnDiscussion(rule_elem["description"]["text"]) # None
       THEN strip(re_search_VulnDiscussion(rule_elem["description"]["text"]))
       ELSE <<>> >>

FirstNonEmpty(tiers) ==
    IF tiers[1] # <<>> THEN tiers[1]
    ELSE IF tiers[2] # <<>> THEN tiers[2]
    ELSE tiers[3]

\* C24: the discussion of every parsed rule is the first non-empty of the
\* VulnDiscussion child of Rule, the VulnDiscussion child of description and
\* the fragment embedded in the description text, and '' only when all
\* three are absent or empty
C24_DiscussionThreeTiers ==
    Parsed =>
        \A i \in DOMAIN ParsedRules :
            ParsedRules[i]["discussion"] =
                FirstNonEmpty(DiscussionTiers(RuleElems(tree["Group"])[i]))

\* the optional nodes of the claim that an element lacks
MissingOf(elem, nodes) == nodes \ DOMAIN elem

\* the field of the checklist that holds the text of a node
BenchmarkField(data, node) ==
    IF node = "title" THEN data["stigs"][1]["stig_name"]
    ELSE IF node = "version" THEN data["stigs"][1]["version"]
    ELSE data["stigs"][1]["release_info"]

GroupField(rule, node) ==
    IF node = "title" THEN rule["group_title"]
    ELSE rule["group_tree"][1]["description"]

RuleField(rule, node) ==
    IF node = "title" THEN rule["rule_title"]
    ELSE IF node = "version" THEN rule["rule_version"]
    ELSE IF node = "description" THEN rule["false_positives"]
    ELSE IF node = "fix" THEN rule["fix_text"]
    ELSE rule["check_content"]

\* the optional nodes a Rule element lacks (its fix text may be nested in
\* fix or a child of the rule itself)
MissingRuleNodes(rule_elem) ==
    MissingOf(rule_elem, OptionalRuleNodes)
        \ (IF "fixtext" \in DOMAIN rule_elem THEN {"fix"} ELSE {})

\* the groups of the document that have a Rule, in document order
RECURSIVE RuleGroups(_)
RuleGroups(groups) ==
    IF groups = <<>> THEN <<>>
    ELSE IF "Rule" \in DOMAIN Head(groups)
         THEN <<Head(groups)>> \o RuleGroups(Tail(groups))
         ELSE RuleGroups(Tail(groups))

\* C25: parsing never raises, whichever optional nodes are missing; a
\* missing node leaves '' in its field and every group that has a Rule
\* still yields its rule
C25_MissingNodesAreEmpty ==
    cklb_json.kind # "none" =>
        /\ Parsed
        /\ \A node \in MissingOf(tree, benchmark_nodes) :
               BenchmarkField(cklb_json.data, node) = <<>>
        /\ Len(ParsedRules) = Len(RuleGroups(tree["Group"]))
        /\ \A i \in DOMAIN ParsedRules :
               LET grp == RuleGroups(tree["Group"])[i]
               IN  /\ \A node \in MissingOf(grp, {"title", "description"}) :
                          GroupField(ParsedRules[i], node) = <<>>
                   /\ \A node \in MissingRuleNodes(grp["Rule"]) :
                          RuleField(ParsedRules[i], node) = <<>>

----------------------------------------------------------------------------
(* C26: validate_stig_data *)

Validated == valid.kind = "returned"

\* a dict with non-empty filename and url
UsableStig(obj) ==
    /\ obj.type = "dict"
    /\ \A k \in {"filename", "url"} :
           k \in DOMAIN obj.value /\ obj.value[k] \notin {<<>>, None}

OptionalStigFields ==
    {"stig_id", "version", "release", "size", "last_modified", "type"}

\* C26: validate_stig_data returns True exactly for a dict with non-empty
\* filename and url; then the six optional fields are present and every
\* value that was present is unchanged; on False the argument is unchanged
C26_ValidateStigData ==
    Validated =>
        /\ valid.value = UsableStig(stig_data_in)
        /\ valid.value =>
               /\ stig_data.type = "dict"
               /\ OptionalStigFields \subseteq DOMAIN stig_data.value
               /\ \A k \in DOMAIN stig_data_in.value :
                      stig_data.value[k] = stig_data_in.value[k]
        /\ ~valid.value => stig_data = stig_data_in

\* a dict that carries None and '' in optional fields and lacks others was
\* accepted
C26_Witness ==
    /\ Validated
    /\ valid.value
    /\ "version" \in DOMAIN stig_data_in.value
    /\ stig_data_in.value["version"] = None
    /\ "type" \in DOMAIN stig_data_in.value
    /\ stig_data_in.value["type"] = <<>>
    /\ "size" \notin DOMAIN stig_data_in.value
    /\ stig_data # stig_data_in

----------------------------------------------------------------------------
(* C27: parse_stig_filename *)

NameParsed == file_info.kind = "returned"

\* the name follows one of the two schemes U_<id>_..._<suffix>
OfScheme(scheme) == name_parts.u /\ name_parts.scheme = scheme

\* a string of digits without its leading zeros
RECURSIVE NoLeadingZeros(_)
NoLeadingZeros(ds) ==
    IF Len(ds) > 1 /\ Head(ds) = "0" THEN NoLeadingZeros(Tail(ds)) ELSE ds

\* the type the keyword of the suffix stands for
TypeOfSuffix(suffix) ==
    IF suffix[1] = "STIG" THEN T("stig")
    ELSE IF suffix[1] = "Products" THEN T("products")
    ELSE IF suffix[1] = "SRR" THEN T("srr")
    ELSE T("unknown")

----------------------------------------------------------------------------
(* C28: checklists that repeat a comparison key *)

\* the key k occurs at two positions of keys
Repeated(keys, k) ==
    \E i, j \in DOMAIN keys : i # j /\ keys[i] = k /\ keys[j] = k

\* rule has, in each finding field, the value old has in it, and the value
\* of the template rule where old lacks the field
Receives(rule, old, template) ==
    \A f \in FindingFields : Get(rule, f, None) = Get(old, f, Get(template, f, None))

\* the report line of the key k in the tables of the given kind
TableRows(tag, k) == {n \in DOMAIN output : output[n].tag = tag /\ output[n].rid = k}

\* every key of doc that other lacks has one table row, and the row shows
\* the title of the last rule of doc with that key
LastRuleListed(tag, doc, other) ==
    \A k \in DocKeys(doc) \ DocKeys(other) :
        /\ Cardinality(TableRows(tag, k)) = 1
        /\ \A n \in TableRows(tag, k) : output[n].title = core_title(DocRule(doc, k))

\* C28: when two rules of a checklist have the same comparison key, the
\* rule index is built without failure and holds the last of them: a merge
\* ends with a merged checklist in which every template rule of that key has
\* the findings of the last old rule of that key, and the tables of Diff show
\* each such key once, with the last rule's title.
C28_LastSeenWins ==
    /\ HasMergeInput /\ Finished => Succeeded
    /\ Succeeded =>
          \A i \in DOMAIN TemplateRules :
              LET k == get_rule_key(TemplateRules[i])
              IN  Truthy(k) /\ Repeated(ComparisonKeys, k) =>
                      /\ i \in DOMAIN MergedRules
                      /\ Receives(MergedRules[i], OldRule(ComparisonKeys, k),
                                  TemplateRules[i])
    /\ HasDiffInput /\ DiffDone =>
          /\ LastRuleListed("only_in_a", file_a, file_b)
          /\ LastRuleListed("new_in_b", file_b, file_a)

----------------------------------------------------------------------------
(* C29: the results run_merge_task returns *)

\* the files of the output directory that were not there before the call
CreatedFiles == {f \in DOMAIN out_dir : out_dir[f] # EarlierOutput}

\* os.path.join(out_dir, f) for the files f
OutPaths(files) == {<<"cklb_updated", "/">> \o f : f \in files}

\* the merged_path values of the list the caller received
ReturnedPaths == {task.returned[n].merged_path : n \in DOMAIN task.returned}

\* C29: run_merge_task ends by returning a list, and the merged_path values
\* of that list are exactly the files the call created in the output
\* directory, whether a checklist of the batch lacks host_name without a
\* prefix or a merge subprocess fails.
C29_ResultPerOutputFile ==
    /\ task.pc # "raised"
    /\ TaskReturned => ReturnedPaths = OutPaths(CreatedFiles)

----------------------------------------------------------------------------
(* C30: the menus of the TUI *)

\* the highlighted entry is one the current menu has
InRange(menu, idx, lists) == idx \in 0..get_max_selection_index(menu, lists)

\* C30: every key event handled by handle_input leaves selected_idx within
\* 0..get_max_selection_index() of the current menu, sets selected_idx to 0
\* when it changes current_menu, and leaves the TUI in the main menu when
\* the key is ESC.
C30_MenuStateMachine ==
    [][/\ InRange(current_menu', selected_idx', file_lists')
       /\ current_menu' # current_menu => selected_idx' = 0
       /\ getch' = "ESC" => current_menu' = "main"]_vars

====
